---- MODULE Spec2Model ----
(***************************************************************************)
(* audiorouter: the reconciliation engine (core.apply_once), the fast-path *)
(* router (core.route_sink_input_now / route_source_output_now) and the    *)
(* server driver (pactl.py), over a model of the sound server.             *)
(*                                                                         *)
(* Strings are sequences of tokens: "vsink.a.monitor" is                   *)
(* <<"vsink.", "a", ".monitor">>, so that Python's startswith, endswith    *)
(* and substring test (`x in y`) are computed, not assumed.                *)
(***************************************************************************)
EXTENDS Integers, Sequences, FiniteSets, TLC

VARIABLES
    cfg,        \* the configuration files: buses, rules, mic_routes, input_routes
    st,         \* state.json: the five RuntimeState maps
    mods,       \* server: loaded modules [id, name, source, sink]
    pend,       \* server: null sinks whose monitor source has not appeared yet
    def,        \* server: the default sink's name (<<>>: none)
    hw,         \* server: the hardware sinks present, in listing order
    sin,        \* server: application sink-inputs [id, props, sink]
    sout,       \* server: application source-outputs [id, props, source]
    op,         \* the last step: "apply" (apply_once), "fast" (a fast path), "other"
    lockfile,   \* the daemon's lock file: [ino, txt] (ino 0: no file; txt 0: empty)
    procs,      \* the daemon processes, by pid: where each is in run_daemon
    up,         \* server: whether `pactl info` answers
    save,       \* a save_config in progress: [pc, new] (pc 0: none)
    runs,       \* the apply_once in progress of each trigger: what it has loaded
    ui          \* the window's flags _apply_running and _apply_queued

\* the configuration, state.json and the sound server
svars == <<cfg, st, mods, pend, def, hw, sin, sout, op>>
\* the daemon processes and what they share
dvars == <<lockfile, procs, up, save, runs, ui>>
\* the processes and threads of the user interface next to the daemon
pvars == <<save, runs, ui>>
vars == <<svars, dvars>>

\* ------------------------------------------------------------------ bounds

MaxStreams == 1
MaxRules == 2
MaxInputRoutes == 1

\* ------------------------------------------------------------------ strings

EmptyStr == <<>>

StartsWith(s, pre) ==
    Len(s) >= Len(pre) /\ SubSeq(s, 1, Len(pre)) = pre

EndsWith(s, suf) ==
    Len(s) >= Len(suf) /\ SubSeq(s, Len(s) - Len(suf) + 1, Len(s)) = suf

\* Python's `needle in hay`
Contains(hay, needle) ==
    \E i \in 1..(Len(hay) - Len(needle) + 1) :
        SubSeq(hay, i, i + Len(needle) - 1) = needle

LowerTok(t) ==
    CASE t = "Vivaldi" -> "vivaldi"
      [] t = "None" -> "none"
      [] t = "Event" -> "event"
      [] OTHER -> t

\* str.lower()
Lower(s) == [i \in 1..Len(s) |-> LowerTok(s[i])]

\* ------------------------------------------------------------------ names

VsinkPrefix == <<"vsink.">>
MonitorSuffix == <<".monitor">>
BusA == <<"vsink.", "a">>
BusB == <<"vsink.", "b">>
SystemBus == <<"vsink.", "system">>
Hw1 == <<"hw1">>
Hw10 == <<"hw1", "0">>
Mic == <<"mic">>
Mic2 == <<"mic", "2">>
RouteDefault == <<"default">>
RouteNone == <<"None">>

MonitorOf(name) == name \o MonitorSuffix

\* the hardware of the machine, in the server's listing order
HwSinks == <<Hw1, Hw10>>
HwSources == {Mic, Mic2}

\* ------------------------------------------------------------------ maps

EmptyMap == [x \in {} |-> 0]
MapGet(f, k, d) == IF k \in DOMAIN f THEN f[k] ELSE d
MapPut(f, k, v) == [x \in (DOMAIN f) \cup {k} |-> IF x = k THEN v ELSE f[x]]
MapPop(f, k) == [x \in (DOMAIN f) \ {k} |-> f[x]]

RECURSIVE SetToSeq(_)
SetToSeq(S) ==
    IF S = {} THEN <<>>
    ELSE LET x == CHOOSE y \in S : TRUE IN <<x>> \o SetToSeq(S \ {x})

Range(s) == {s[i] : i \in DOMAIN s}

\* the records of S (each with an integer field id) in ascending id order
RECURSIVE SortById(_)
SortById(S) ==
    IF S = {} THEN <<>>
    ELSE LET x == CHOOSE y \in S : \A z \in S : y.id <= z.id
         IN <<x>> \o SortById(S \ {x})

\* ------------------------------------------------------------------ server

NullSinkName == "module-null-sink"
LoopbackName == "module-loopback"
RolesName == "module-intended-roles"

Cmd(c, id, src, snk, on) == [c |-> c, id |-> id, src |-> src, snk |-> snk, on |-> on]

Emit(x, e) == [x EXCEPT !.log = Append(@, e)]

\* the server error of a run: the nth command of one kind ends with a non-zero
\* return code (pactl.pactl raises RuntimeError, pactl.try_pactl returns "")
NoFault == [kind |-> "none", nth |-> 0]
Refuses(x, kind) == x.fail.kind = kind /\ x.fail.nth = 1
Counted(x, kind) ==
    IF x.fail.kind = kind /\ x.fail.nth > 0 THEN [x EXCEPT !.fail.nth = @ - 1] ELSE x

\* an exception leaves the function that called pactl.pactl
Raise(x) == [x EXCEPT !.raised = TRUE]

\* pactl list short sinks: hardware first, then the null sinks as loaded
ListSinks(x) ==
    x.hw \o [i \in 1..Cardinality({m \in x.mods : m.name = NullSinkName}) |->
                    SortById({m \in x.mods : m.name = NullSinkName})[i].sink]

ListSources(x) ==
    HwSources \cup {MonitorOf(n) : n \in Range(ListSinks(x)) \ x.pend}

\* the args column of `pactl list short modules`
ArgsOf(m) ==
    IF m.name = LoopbackName
    THEN <<"source=">> \o m.source \o <<" ", "sink=">> \o m.sink
           \o <<" ", "latency_msec=30", " ", "sink_dont_move=true">>
    ELSE IF m.name = NullSinkName
    THEN <<"sink_name=">> \o m.sink \o <<" ", "sink_properties=device.description=label">>
    ELSE <<>>

ListModules(x) == SortById(x.mods)

\* a stream's property bag: a missing key reads as the empty string
PropKeys ==
    {"media.role", "application.name", "application.process.binary",
     "pipewire.access.portal.app_id", "media.name"}
NoProps == [k \in PropKeys |-> EmptyStr]

\* the sink-input every loopback module owns on its sink
LoopInputId(mid) == 100 + mid
LoopInputs(x) ==
    {[id |-> LoopInputId(m.id), owner |-> m.id, sink |-> m.sink,
      props |-> NoProps, app |-> FALSE] : m \in {k \in x.mods : k.name = LoopbackName}}

AppInputs(x) ==
    {[id |-> s.id, owner |-> 0, sink |-> s.sink, props |-> s.props, app |-> TRUE] :
        s \in x.sin}

\* pactl list sink-inputs
ListSinkInputs(x) == SortById(AppInputs(x) \cup LoopInputs(x))

\* the server's default after the sink set changed
DefaultAfter(d, sinks) ==
    IF d \in Range(sinks) THEN d
    ELSE IF sinks # <<>> THEN sinks[1] ELSE EmptyStr

\* the server after module `id` went away: a null sink takes its sink with it,
\* the streams on that sink fall back to the default sink
DropModule(x, id) ==
    LET gone == {m \in x.mods : m.id = id}
        x1 == [x EXCEPT !.mods = @ \ gone]
        lost == {m.sink : m \in {k \in gone : k.name = NullSinkName}}
        d == DefaultAfter(x.def, ListSinks(x1))
    IN [x1 EXCEPT !.def = d,
                  !.pend = @ \ lost,
                  !.sin = {IF s.sink \in lost THEN [s EXCEPT !.sink = d] ELSE s : s \in @},
                  !.sout = {IF \E n \in lost : s.source = MonitorOf(n)
                            THEN [s EXCEPT !.source = Mic] ELSE s : s \in @}]

\* the id load-module answers with: the server (pipewire-pulse) hands out the
\* lowest index that is free
NewModuleId(x) ==
    CHOOSE n \in 1..(Cardinality(x.mods) + 1) :
        /\ \A m \in x.mods : m.id # n
        /\ \A k \in 1..(n - 1) : \E m \in x.mods : m.id = k

\* pactl.sink_exists / source_exists: an exact comparison of listed names
SinkExists(x, name) == name \in Range(ListSinks(x))
SourceExists(x, name) == name \in ListSources(x)

\* pactl.unload_module: nothing at all for an empty id; unloading an unknown
\* id is accepted silently (try_pactl)
UnloadModule(x, id) ==
    IF id = 0 THEN x
    ELSE IF Refuses(x, "unload-module")
    THEN Counted(Emit(x, Cmd("unload-module", id, EmptyStr, EmptyStr, FALSE)), "unload-module")
    ELSE DropModule(Counted(Emit(x, Cmd("unload-module", id, EmptyStr, EmptyStr, FALSE)),
                            "unload-module"), id)

TagSystemSink(x, name) ==
    IF ~SinkExists(x, name) THEN x
    ELSE Emit(x, Cmd("set-sink-properties", 0, EmptyStr, name, FALSE))

\* pactl.load_null_sink; `lag`: the monitor source appears only later
LoadNullSink(x, name, lag) ==
    LET id == NewModuleId(x)
        x1 == [Counted(Emit(x, Cmd("load-null-sink", id, EmptyStr, name, FALSE)),
                       "load-null-sink")
                 EXCEPT !.mods = @ \cup {[id |-> id, name |-> NullSinkName,
                                          source |-> EmptyStr, sink |-> name]},
                        !.pend = IF lag THEN @ \cup {name} ELSE @]
        x2 == [x1 EXCEPT !.def = DefaultAfter(x1.def, ListSinks(x1))]
        x3 == Emit(x2, Cmd("set-source-properties", 0, MonitorOf(name), EmptyStr, FALSE))
        x4 == Emit(x3, Cmd("set-sink-properties", 0, EmptyStr, name, FALSE))
    IN IF Refuses(x, "load-null-sink")
       THEN Raise(Counted(Emit(x, Cmd("load-null-sink", 0, EmptyStr, name, FALSE)),
                          "load-null-sink"))
       ELSE IF name = SystemBus THEN TagSystemSink(x4, name) ELSE x4

\* pactl.load_loopback
LoadLoopback(x, source, sink) ==
    LET id == NewModuleId(x)
        x1 == [Counted(Emit(x, Cmd("load-loopback", id, source, sink, FALSE)),
                       "load-loopback")
                 EXCEPT !.mods = @ \cup {[id |-> id, name |-> LoopbackName,
                                          source |-> source, sink |-> sink]}]
        x2 == Emit(x1, Cmd("set-sink-properties", id, EmptyStr, <<"loopback-">>, FALSE))
    IN IF Refuses(x, "load-loopback")
       THEN Raise(Counted(Emit(x, Cmd("load-loopback", 0, source, sink, FALSE)),
                          "load-loopback"))
       ELSE Emit(x2, Cmd("set-source-properties", id, <<"loopback-">>, EmptyStr, FALSE))

ArgsMatchSource(m, source) == Contains(ArgsOf(m), <<"source=">> \o source)
ArgsMatchSink(m, sink) == Contains(ArgsOf(m), <<"sink=">> \o sink)

\* an existence test that never finds the loopback (the fault C5 excludes)
LoopbackNeverFound(x, source, sink) == FALSE

\* pactl.loopback_exists
LoopbackExists(x, source, sink) ==
    \E m \in x.mods :
        /\ m.name = LoopbackName
        /\ ArgsMatchSource(m, source)
        /\ ArgsMatchSink(m, sink)

WrongLoopback(m, source, wanted) ==
    /\ m.name = LoopbackName
    /\ ArgsMatchSource(m, source)
    /\ ~ArgsMatchSink(m, wanted)

RECURSIVE UnloadEach(_, _, _, _)
UnloadEach(x, listed, source, wanted) ==
    IF listed = <<>> THEN x
    ELSE UnloadEach(IF WrongLoopback(Head(listed), source, wanted)
                    THEN UnloadModule(x, Head(listed).id) ELSE x,
                    Tail(listed), source, wanted)

\* pactl.cleanup_wrong_loopbacks_for_source: over one listing of the modules
CleanupWrongLoopbacksForSource(x, source, wanted) ==
    UnloadEach(x, ListModules(x), source, wanted)

\* pactl.ensure_module_loaded
EnsureModuleLoaded(x, name) ==
    IF \E m \in x.mods : m.name = name THEN x
    ELSE [Emit(x, Cmd("load-module", NewModuleId(x), EmptyStr, EmptyStr, FALSE))
            EXCEPT !.mods = @ \cup {[id |-> NewModuleId(x), name |-> name,
                                     source |-> EmptyStr, sink |-> EmptyStr]}]

\* pactl.sink_inputs_for_owner_module: ids, in listing order
SinkInputsForOwnerModule(x, mid) ==
    IF mid = 0 THEN <<>>
    ELSE LET all == ListSinkInputs(x)
             RECURSIVE Pick(_)
             Pick(s) == IF s = <<>> THEN <<>>
                        ELSE (IF Head(s).owner = mid THEN <<Head(s).id>> ELSE <<>>)
                               \o Pick(Tail(s))
         IN Pick(all)

\* a monitor source that is never muted (the fault C23 excludes)
SourceMuteDropped(x, name, on) == x

SetSinkMute(x, name, on) == Emit(x, Cmd("set-sink-mute", 0, EmptyStr, name, on))
SetSourceMute(x, name, on) == Emit(x, Cmd("set-source-mute", 0, name, EmptyStr, on))
SetSinkInputMute(x, id, on) == Emit(x, Cmd("set-sink-input-mute", id, EmptyStr, EmptyStr, on))

RECURSIVE MuteInputs(_, _, _)
MuteInputs(x, ids, on) ==
    IF ids = <<>> THEN x ELSE MuteInputs(SetSinkInputMute(x, Head(ids), on), Tail(ids), on)

\* whether the server carries out move-sink-input: the stream and the sink exist,
\* and the stream is not a loopback's (loaded with sink_dont_move=true)
MoveSucceeds(x, id, target) ==
    /\ \E s \in x.sin : s.id = id
    /\ SinkExists(x, target)
    /\ ~Refuses(x, "move-sink-input")

\* pactl.move_sink_input: the command is issued; it raises when the server refuses
MoveSinkInput(x, id, target) ==
    LET x1 == Counted(Emit(x, Cmd("move-sink-input", id, EmptyStr, target, FALSE)),
                      "move-sink-input")
    IN IF MoveSucceeds(x, id, target)
       THEN [x1 EXCEPT !.sin = {IF s.id = id THEN [s EXCEPT !.sink = target] ELSE s : s \in @}]
       ELSE x1

\* pactl.list_source_outputs / move_source_output: not in pactl.py; after the
\* specification's 4.1 (the capture-stream analogues of the two above)
ListSourceOutputs(x) == SortById(x.sout)

MoveSourceOutputSucceeds(x, id, target) ==
    /\ \E s \in x.sout : s.id = id
    /\ SourceExists(x, target)

MoveSourceOutput(x, id, target) ==
    LET x1 == Emit(x, Cmd("move-source-output", id, target, EmptyStr, FALSE))
    IN IF MoveSourceOutputSucceeds(x, id, target)
       THEN [x1 EXCEPT !.sout = {IF s.id = id THEN [s EXCEPT !.source = target] ELSE s : s \in @}]
       ELSE x1

\* ------------------------------------------------------------------ core.py

\* props.get(key) or ""
Prop(props, key) == props[key]

\* the resolution without the fallback to the first hardware sink (the fault C4 excludes)
RawDefaultSink(d, sinks) == d

\* core._get_physical_default_sink, from get-default-sink and the sink listing
PhysicalDefaultSink(d, sinks) ==
    IF d # EmptyStr /\ ~StartsWith(d, VsinkPrefix) THEN d
    ELSE IF \E i \in DOMAIN sinks : sinks[i] # EmptyStr /\ ~StartsWith(sinks[i], VsinkPrefix)
    THEN sinks[CHOOSE i \in DOMAIN sinks :
                 /\ sinks[i] # EmptyStr /\ ~StartsWith(sinks[i], VsinkPrefix)
                 /\ \A j \in 1..(i - 1) :
                        ~(sinks[j] # EmptyStr /\ ~StartsWith(sinks[j], VsinkPrefix))]
    ELSE d

GetPhysicalDefaultSink(x) == PhysicalDefaultSink(x.def, ListSinks(x))

KnownApps ==
    {<<"gnome-shell">>, <<"plasmashell">>, <<"kded5">>, <<"kded6">>,
     <<"xfce4-notifyd">>, <<"notification-daemon">>, <<"mako">>}
KnownBins ==
    {<<"gnome-shell">>, <<"plasmashell">>, <<"xfce4-notifyd">>,
     <<"notification-daemon">>, <<"mako">>, <<"canberra-gtk-play">>}
MediaNameTokens ==
    {"system sound", "system sounds", "systemklaenge", "benachrichtigung",
     "notification", "event"}

\* core._is_system_stream
IsSystemStream(props) ==
    \/ Lower(Prop(props, "media.role")) \in {<<"event">>, <<"notification">>}
    \/ Lower(Prop(props, "application.name")) \in KnownApps
    \/ Lower(Prop(props, "application.process.binary")) \in KnownBins
    \/ /\ StartsWith(Lower(Prop(props, "pipewire.access.portal.app_id")),
                     <<"org.freedesktop.impl.portal">>)
       /\ Contains(Lower(Prop(props, "media.name")), <<"portal">>)
    \/ \E t \in MediaNameTokens : Contains(Lower(Prop(props, "media.name")), <<t>>)

\* the three checks of a rule's match mapping against a stream's properties
\* (core.py 136-142, 205-211, 420-426, 471-477): a key that is absent checks nothing
\* (a match mapping is [has: the keys present, binary, app, app_id])
RuleOk(match, props) ==
    /\ ("binary" \in match.has =>
            Contains(Lower(Prop(props, "application.process.binary")), Lower(match.binary)))
    /\ ("app" \in match.has =>
            Contains(Lower(Prop(props, "application.name")), Lower(match.app)))
    /\ ("app_id" \in match.has =>
            Contains(Lower(Prop(props, "pipewire.access.portal.app_id")), Lower(match.app_id)))

\* core._move_input_quietly with SYSTEM_STREAM_MOVE_MUTE_SEC = 0.0: a direct move
MoveInputQuietly(x, id, target) == MoveSinkInput(x, id, target)

\* apply_once 240-245: drop the state of input routes no longer configured
RECURSIVE CleanupInputState(_, _, _)
CleanupInputState(x, keys, wanted) ==
    IF keys = <<>> THEN x
    ELSE LET k == Head(keys)
             u == UnloadModule(x, x.st.input_route_modules[k])
         IN CleanupInputState(
                IF k \in wanted THEN x
                ELSE [u EXCEPT !.st.input_route_modules = MapPop(@, k),
                               !.st.input_route_target = MapPop(@, k)],
                Tail(keys), wanted)

\* a run that leaves the loopbacks of removed buses alone (the fault C33 excludes)
RouteStateKept(x, keys, current) == x

\* apply_once 250-254: loopbacks of removed buses
RECURSIVE CleanupRouteState(_, _, _)
CleanupRouteState(x, keys, current) ==
    IF keys = <<>> THEN x
    ELSE LET k == Head(keys)
             u == UnloadModule(x, x.st.route_modules[k])
         IN CleanupRouteState(
                IF k \in current THEN x
                ELSE [u EXCEPT !.st.route_modules = MapPop(@, k),
                               !.st.route_target = MapPop(@, k)],
                Tail(keys), current)

\* apply_once 256-259: null sinks of removed buses
RECURSIVE CleanupBusState(_, _, _)
CleanupBusState(x, keys, current) ==
    IF keys = <<>> THEN x
    ELSE LET k == Head(keys)
             u == UnloadModule(x, x.st.bus_modules[k])
         IN CleanupBusState(
                IF k \in current THEN x
                ELSE [u EXCEPT !.st.bus_modules = MapPop(@, k)],
                Tail(keys), current)

\* apply_once 264-274: one bus of "ensure null sinks exist"
EnsureNullSink(x, b, lag) ==
    LET Recorded(loaded) ==
            IF loaded.raised THEN loaded
            ELSE [loaded EXCEPT !.st.bus_modules = MapPut(@, b.name, NewModuleId(x))]
        Tagged(x1) ==
            IF x1.raised THEN x1
            ELSE IF b.name = SystemBus THEN TagSystemSink(x1, b.name) ELSE x1
    IN Tagged(IF SinkExists(x, b.name) THEN x ELSE Recorded(LoadNullSink(x, b.name, lag)))

RECURSIVE EnsureNullSinks(_, _, _)
EnsureNullSinks(x, buses, lag) ==
    IF buses = <<>> \/ x.raised THEN x
    ELSE EnsureNullSinks(EnsureNullSink(x, Head(buses), lag), Tail(buses), lag)

\* a handover that is never taken for a virtual one: always make-before-break
\* (the fault C21 excludes)
NeverVirtual(target, prev_target) == FALSE

\* a handover that is always taken for a virtual one: always break-before-make
\* (the fault C22 excludes)
AlwaysVirtual(target, prev_target) == TRUE

\* apply_once 315: involves_virtual
InvolvesVirtual(target, prev_target) ==
    StartsWith(target, VsinkPrefix) \/ StartsWith(prev_target, VsinkPrefix)

\* a handover whose cleanup is skipped when load_loopback raises: no `finally`
\* (the fault C14 excludes)
HandoverNoFinally(x, name, target) ==
    LET monitor == MonitorOf(name)
        prev_target == MapGet(x.st.route_target, name, EmptyStr)
        prev_mod == MapGet(x.st.route_modules, name, 0)
        involves_virtual == InvolvesVirtual(target, prev_target)
        prev_inputs == SinkInputsForOwnerModule(x, prev_mod)
        x1 == MuteInputs(SetSourceMute(SetSinkMute(x, name, TRUE), monitor, TRUE),
                         prev_inputs, TRUE)
        before_load == IF involves_virtual
                       THEN CleanupWrongLoopbacksForSource(x1, monitor, target)
                       ELSE x1
        new_mod == NewModuleId(before_load)
        MakeBeforeBreak(loaded) ==
            IF involves_virtual \/ loaded.raised THEN loaded
            ELSE CleanupWrongLoopbacksForSource(loaded, monitor, target)
        Unmuted(x2) ==
            IF x2.raised THEN x2
            ELSE SetSinkMute(SetSourceMute(
                     MuteInputs(MuteInputs(x2, prev_inputs, FALSE),
                                SinkInputsForOwnerModule(x2, new_mod), FALSE),
                     monitor, FALSE), name, FALSE)
        Recorded(x5) ==
            IF x5.raised THEN x5
            ELSE [x5 EXCEPT !.st.route_modules = MapPut(@, name, new_mod),
                            !.st.route_target = MapPut(@, name, target)]
    IN Recorded(Unmuted(MakeBeforeBreak(LoadLoopback(before_load, monitor, target))))

\* apply_once 313-351: the handover to a new loopback
Handover(x, name, target) ==
    LET monitor == MonitorOf(name)
        prev_target == MapGet(x.st.route_target, name, EmptyStr)
        prev_mod == MapGet(x.st.route_modules, name, 0)
        involves_virtual == InvolvesVirtual(target, prev_target)
        prev_inputs == SinkInputsForOwnerModule(x, prev_mod)
        x1 == MuteInputs(SetSourceMute(SetSinkMute(x, name, TRUE), monitor, TRUE),
                         prev_inputs, TRUE)
        before_load == IF involves_virtual
                       THEN CleanupWrongLoopbacksForSource(x1, monitor, target)
                       ELSE x1
        new_mod == NewModuleId(before_load)
        MakeBeforeBreak(loaded) ==
            IF involves_virtual \/ loaded.raised THEN loaded
            ELSE CleanupWrongLoopbacksForSource(loaded, monitor, target)
        UnmuteNew(x3) ==
            IF x3.raised THEN x3
            ELSE MuteInputs(x3, SinkInputsForOwnerModule(x3, new_mod), FALSE)
        Finally(x2) ==
            SetSinkMute(SetSourceMute(UnmuteNew(MuteInputs(x2, prev_inputs, FALSE)),
                                      monitor, FALSE), name, FALSE)
        Recorded(x5) ==
            IF x5.raised THEN x5
            ELSE [x5 EXCEPT !.st.route_modules = MapPut(@, name, new_mod),
                            !.st.route_target = MapPut(@, name, target)]
    IN Recorded(Finally(MakeBeforeBreak(LoadLoopback(before_load, monitor, target))))

\* the routing of one bus without the guard of line 297 (the fault C3 excludes)
RouteBusUnguarded(x, b) ==
    LET name == b.name
        target == IF b.route_to = RouteDefault THEN GetPhysicalDefaultSink(x)
                  ELSE b.route_to
        monitor == MonitorOf(name)
    IN IF Lower(b.route_to) \in {<<"none">>, <<"no routing">>}
       THEN [UnloadModule(x, MapGet(x.st.route_modules, name, 0))
               EXCEPT !.st.route_modules = MapPop(@, name),
                      !.st.route_target = MapPut(@, name, <<"none">>)]
       ELSE IF target = EmptyStr THEN x
       ELSE IF ~SourceExists(x, monitor) THEN x
       ELSE IF LoopbackExists(x, monitor, target)
       THEN CleanupWrongLoopbacksForSource(
                [x EXCEPT !.st.route_target = MapPut(@, name, target)], monitor, target)
       ELSE Handover(x, name, target)

\* apply_once 279-351: one bus of the routing phase
RouteBus(x, b) ==
    LET name == b.name
        target == IF b.route_to = RouteDefault THEN GetPhysicalDefaultSink(x)
                  ELSE b.route_to
        monitor == MonitorOf(name)
    IN IF Lower(b.route_to) \in {<<"none">>, <<"no routing">>}
       THEN [UnloadModule(x, MapGet(x.st.route_modules, name, 0))
               EXCEPT !.st.route_modules = MapPop(@, name),
                      !.st.route_target = MapPut(@, name, <<"none">>)]
       ELSE IF target = EmptyStr THEN x
       ELSE IF target = name \/ EndsWith(target, MonitorSuffix) THEN x
       ELSE IF ~SourceExists(x, monitor) THEN x
       ELSE IF LoopbackExists(x, monitor, target)
       THEN CleanupWrongLoopbacksForSource(
                [x EXCEPT !.st.route_target = MapPut(@, name, target)], monitor, target)
       ELSE Handover(x, name, target)

RECURSIVE RouteBuses(_, _)
RouteBuses(x, buses) ==
    IF buses = <<>> \/ x.raised THEN x
    ELSE RouteBuses(RouteBus(x, Head(buses)), Tail(buses))

\* apply_once 356-387: one input route
InputRoute(x, r) ==
    LET source_name == r.source
        tgt_bus == r.target_bus
        prev_mod == MapGet(x.st.input_route_modules, source_name, 0)
        prev_target == MapGet(x.st.input_route_target, source_name, EmptyStr)
        x1 == IF prev_mod # 0 /\ prev_target # tgt_bus THEN UnloadModule(x, prev_mod) ELSE x
        x2 == CleanupWrongLoopbacksForSource(x1, source_name, tgt_bus)
        new_mod == NewModuleId(x2)
        Caught(loaded) ==
            IF loaded.raised THEN [loaded EXCEPT !.raised = FALSE]
            ELSE [loaded EXCEPT !.st.input_route_modules = MapPut(@, source_name, new_mod),
                                !.st.input_route_target = MapPut(@, source_name, tgt_bus)]
    IN IF source_name = EmptyStr \/ tgt_bus = EmptyStr THEN x
       ELSE IF ~SourceExists(x, source_name) \/ ~SinkExists(x, tgt_bus) THEN x
       ELSE IF EndsWith(source_name, MonitorSuffix) THEN x
       ELSE IF LoopbackExists(x, source_name, tgt_bus)
       THEN CleanupWrongLoopbacksForSource(
                [x EXCEPT !.st.input_route_target = MapPut(@, source_name, tgt_bus)],
                source_name, tgt_bus)
       ELSE Caught(LoadLoopback(x2, source_name, tgt_bus))

RECURSIVE InputRoutes(_, _)
InputRoutes(x, routes) ==
    IF routes = <<>> \/ x.raised THEN x
    ELSE InputRoutes(InputRoute(x, Head(routes)), Tail(routes))

\* apply_once 413-433: the rules against one sink-input; every rule is visited
RECURSIVE ApplyRules(_, _, _, _)
ApplyRules(x, inp, rules, matched) ==
    IF rules = <<>> THEN [x |-> x, matched |-> matched]
    ELSE LET r == Head(rules)
         IN IF r.target_bus = EmptyStr \/ ~SinkExists(x, r.target_bus)
            THEN ApplyRules(x, inp, Tail(rules), matched)
            ELSE IF RuleOk(r.match, inp.props)
            THEN ApplyRules(MoveSinkInput(x, inp.id, r.target_bus), inp, Tail(rules), TRUE)
            ELSE ApplyRules(x, inp, Tail(rules), matched)

\* the fallback taken whether or not a rule matched (the fault C10 excludes)
StreamRulesAlwaysFallback(x, inp, rules, have_system_bus) ==
    LET a == ApplyRules(x, inp, rules, FALSE)
    IN IF have_system_bus /\ IsSystemStream(inp.props)
       THEN (IF inp.sink = SystemBus THEN a.x
             ELSE MoveInputQuietly(a.x, inp.id, SystemBus))
       ELSE a.x

\* apply_once 406-446: one sink-input of the listing taken at line 400
StreamRules(x, inp, rules, have_system_bus) ==
    LET a == ApplyRules(x, inp, rules, FALSE)
    IN IF a.matched THEN a.x
       ELSE IF have_system_bus /\ IsSystemStream(inp.props)
       THEN (IF inp.sink = SystemBus THEN a.x
             ELSE MoveInputQuietly(a.x, inp.id, SystemBus))
       ELSE a.x

RECURSIVE AllStreamRules(_, _, _, _)
AllStreamRules(x, inputs, rules, have_system_bus) ==
    IF inputs = <<>> THEN x
    ELSE AllStreamRules(StreamRules(x, Head(inputs), rules, have_system_bus),
                        Tail(inputs), rules, have_system_bus)

\* apply_once 461-491: the microphone rules against one source-output; the
\* first rule that is ok ends the loop
RECURSIVE MicRules(_, _, _)
MicRules(x, out, routes) ==
    IF routes = <<>> THEN x
    ELSE LET r == Head(routes)
             target_source == MonitorOf(r.target_bus)
         IN IF r.target_bus = EmptyStr \/ ~SourceExists(x, target_source)
            THEN MicRules(x, out, Tail(routes))
            ELSE IF ~RuleOk(r.match, out.props) THEN MicRules(x, out, Tail(routes))
            ELSE IF out.source = target_source THEN x
            ELSE MoveSourceOutput(x, out.id, target_source)

RECURSIVE AllMicRules(_, _, _)
AllMicRules(x, outs, routes) ==
    IF outs = <<>> THEN x
    ELSE AllMicRules(MicRules(x, Head(outs), routes), Tail(outs), routes)

\* a run that routes the buses before it has made their null sinks (the fault
\* C28 excludes)
RoutesBeforeNullSinks(x, c, lag) ==
    LET current_bus_names == {c.buses[i].name : i \in DOMAIN c.buses}
        wanted_input_sources ==
            {c.input_routes[i].source : i \in DOMAIN c.input_routes} \ {EmptyStr}
        x1 == CleanupInputState(x, SetToSeq(DOMAIN x.st.input_route_modules),
                                wanted_input_sources)
        x2 == CleanupRouteState(x1, SetToSeq(DOMAIN x1.st.route_modules), current_bus_names)
        x3 == CleanupBusState(x2, SetToSeq(DOMAIN x2.st.bus_modules), current_bus_names)
        x4 == RouteBuses(x3, c.buses)
        x5 == IF x4.raised THEN x4 ELSE EnsureNullSinks(x4, c.buses, lag)
        x6 == InputRoutes(x5, c.input_routes)
        PolicyModule(x7) == IF x7.raised THEN x7 ELSE EnsureModuleLoaded(x7, RolesName)
    IN PolicyModule(x6)

\* apply_once 237-395: everything before the stream rules (cleanup, null sinks,
\* bus routes, input routes, the policy module)
BeforeStreamRules(x, c, lag) ==
    LET current_bus_names == {c.buses[i].name : i \in DOMAIN c.buses}
        wanted_input_sources ==
            {c.input_routes[i].source : i \in DOMAIN c.input_routes} \ {EmptyStr}
        x1 == CleanupInputState(x, SetToSeq(DOMAIN x.st.input_route_modules),
                                wanted_input_sources)
        x2 == CleanupRouteState(x1, SetToSeq(DOMAIN x1.st.route_modules), current_bus_names)
        x3 == CleanupBusState(x2, SetToSeq(DOMAIN x2.st.bus_modules), current_bus_names)
        x4 == EnsureNullSinks(x3, c.buses, lag)
        x5 == RouteBuses(x4, c.buses)
        x6 == InputRoutes(x5, c.input_routes)
        PolicyModule(x7) == IF x7.raised THEN x7 ELSE EnsureModuleLoaded(x7, RolesName)
    IN PolicyModule(x6)

\* core.apply_once, from load_config/load_state to save_state
ApplyOnceRun(x, c, lag) ==
    LET StreamPhase(x7) ==
            IF x7.raised THEN x7
            ELSE AllStreamRules(x7, ListSinkInputs(x7), c.rules, SinkExists(x7, SystemBus))
        MicPhase(x8) ==
            IF x8.raised THEN x8
            ELSE IF c.mic_routes # <<>>
            THEN AllMicRules(x8, ListSourceOutputs(x8), c.mic_routes)
            ELSE x8
    IN MicPhase(StreamPhase(BeforeStreamRules(x, c, lag)))

\* core.route_sink_input_now 129-149: the first rule that is ok decides
RECURSIVE FastRules(_, _, _)
FastRules(x, inp, rules) ==
    IF rules = <<>> THEN [x |-> x, done |-> FALSE, result |-> FALSE]
    ELSE LET r == Head(rules)
         IN IF r.target_bus = EmptyStr \/ ~SinkExists(x, r.target_bus)
            THEN FastRules(x, inp, Tail(rules))
            ELSE IF RuleOk(r.match, inp.props)
            THEN [x |-> MoveSinkInput(x, inp.id, r.target_bus), done |-> TRUE,
                  result |-> MoveSucceeds(x, inp.id, r.target_bus)]
            ELSE FastRules(x, inp, Tail(rules))

\* core.route_sink_input_now
RouteSinkInputNow(x, c, sid) ==
    LET found == {i \in Range(ListSinkInputs(x)) : i.id = sid}
        inp == CHOOSE i \in found : TRUE
        f == FastRules(x, inp, c.rules)
    IN IF found = {} THEN [x |-> x, result |-> FALSE]
       ELSE IF f.done THEN [x |-> f.x, result |-> f.result]
       ELSE IF SinkExists(x, SystemBus) /\ IsSystemStream(inp.props)
       THEN (IF inp.sink = SystemBus THEN [x |-> x, result |-> TRUE]
             ELSE [x |-> MoveInputQuietly(x, inp.id, SystemBus),
                   result |-> MoveSucceeds(x, inp.id, SystemBus)])
       ELSE [x |-> x, result |-> FALSE]

\* core.route_source_output_now 195-218
RECURSIVE FastMicRules(_, _, _)
FastMicRules(x, out, routes) ==
    IF routes = <<>> THEN [x |-> x, result |-> FALSE]
    ELSE LET r == Head(routes)
             target_source == MonitorOf(r.target_bus)
         IN IF r.target_bus = EmptyStr \/ ~SourceExists(x, target_source)
            THEN FastMicRules(x, out, Tail(routes))
            ELSE IF RuleOk(r.match, out.props)
            THEN [x |-> MoveSourceOutput(x, out.id, target_source),
                  result |-> MoveSourceOutputSucceeds(x, out.id, target_source)]
            ELSE FastMicRules(x, out, Tail(routes))

\* core.route_source_output_now
RouteSourceOutputNow(x, c, sid) ==
    LET found == {o \in x.sout : o.id = sid}
    IN IF c.mic_routes = <<>> \/ found = {} THEN [x |-> x, result |-> FALSE]
       ELSE FastMicRules(x, CHOOSE o \in found : TRUE, c.mic_routes)

\* load_state on a missing state.json, after the setdefault calls (apply_once 226-230)
EmptyState ==
    [bus_modules |-> EmptyMap, route_modules |-> EmptyMap, route_target |-> EmptyMap,
     input_route_modules |-> EmptyMap, input_route_target |-> EmptyMap]

\* config.DEFAULT_CONFIG
DefaultConfig == [buses |-> <<>>, rules |-> <<>>, mic_routes |-> <<>>, input_routes |-> <<>>]

\* ------------------------------------------------------------------ daemon.py: data

MaxProcs == 2
\* the pids of the daemon processes that get started
Procs == 1..MaxProcs

\* LOCK_FILE does not exist
NoFile == [ino |-> 0, txt |-> 0]

\* a process that has not been started: pc is the place in run_daemon, fd the
\* inode behind the descriptor of os.open, rd the pid read from the lock file,
\* got the result of _try_acquire_daemon_lock ("none" until it returns), stop
\* the flag _STOP; the other fields record what the process did: tries (calls
\* of os.open), alone (no other process was alive or started while it acquired),
\* sawup (wait_for_pipewire returned True), napply (reconciliations run),
\* watch (the watcher thread runs), sub (events are subscribed to), inbox (the
\* event line the subscription holds for it: "none", "new", "other", "eof").
\* clock is the last reading of time.monotonic(), last and lastm the session's
\* `last` and `last_maintenance`, seen the watcher thread's `seen`; acc and rec
\* record when the session last let an "other" event past the debounce and when
\* it last reconciled for one (-1: not yet), did what the last event made the
\* loop call, passed the ids the watcher gave to the fast path whose streams
\* are still there
IdleProc ==
    [pc |-> "idle", fd |-> 0, rd |-> 0, got |-> "none", stop |-> FALSE, tries |-> 0,
     alone |-> FALSE, sawup |-> FALSE, napply |-> 0, watch |-> FALSE, sub |-> FALSE,
     inbox |-> "none", clock |-> 0, last |-> 0, lastm |-> 0, acc |-> -1, rec |-> -1,
     did |-> <<>>, seen |-> {}, passed |-> {},
     tick |-> FALSE, out |-> "none", prec |-> -1, evid |-> 0,
     wpc |-> "none", wdid |-> {}, wtick |-> FALSE]

\* the pid of a daemon of an earlier session, which was killed and left its lock
StalePid == MaxProcs + 1
StaleLock == [ino |-> StalePid, txt |-> StalePid]

\* no save_config is under way (config.py 92-101)
NoSave == [pc |-> 0, new |-> DefaultConfig]

\* the callers of apply_once that run next to each other: the daemon process,
\* the window's worker thread (gui.py 976-994) and the window's main thread
Triggers == {"daemon", "worker", "main"}

\* no apply_once is under way: `on` from load_config (core.py 223) to the
\* return, cfg and st what lines 223-224 have loaded
IdleRun == [on |-> FALSE, cfg |-> DefaultConfig, st |-> EmptyState]

\* gui.py 77-78, and where the worker thread of _apply_once_async is: "none",
\* "started", "loaded" (inside apply_once), "done" (on_done handed to the main loop)
IdleUi == [running |-> FALSE, queued |-> FALSE, worker |-> "none"]

NoOverlap ==
    /\ save = NoSave
    /\ runs = [t \in Triggers |-> IdleRun]
    /\ ui = IdleUi

\* no daemon was started, no lock file is left, the server answers
NoDaemon ==
    /\ lockfile = NoFile
    /\ procs = [p \in Procs |-> IdleProc]
    /\ up = TRUE
    /\ NoOverlap

\* ------------------------------------------------------------------ the state machine

\* the server and state.json as the operators above see them, with an empty log
CtxWith(fault) ==
    [mods |-> mods, pend |-> pend, def |-> def, hw |-> hw,
     sin |-> sin, sout |-> sout, st |-> st, log |-> <<>>, fail |-> fault, raised |-> FALSE]

\* ... with a server that refuses nothing
Ctx == CtxWith(NoFault)

\* a rule's match mapping: `has` is the set of keys present
Match(has, binary, app, app_id) ==
    [has |-> has, binary |-> binary, app |-> app, app_id |-> app_id]

InitServer ==
    /\ cfg = DefaultConfig
    /\ st = EmptyState
    /\ mods = {}
    /\ pend = {}
    /\ hw = HwSinks
    /\ def = Hw1
    /\ sin = {}
    /\ sout = {}
    /\ op = "other"

Init ==
    /\ InitServer
    /\ NoDaemon

Server(x) ==
    /\ mods' = x.mods
    /\ pend' = x.pend
    /\ def' = x.def
    /\ sin' = x.sin
    /\ sout' = x.sout
    /\ UNCHANGED hw

\* save_state (apply_once 492), next to the server as the run left it; a run
\* that raised never gets there
SaveState(x) == Server(x) /\ st' = IF x.raised THEN st ELSE x.st

\* the k-th file save_config writes (vsinks.json, routing-rules.json,
\* input-routes.json, config.json), as a reader finds it: Path.write_text opens
\* the file with mode "w", which empties it, and writes the text afterwards
FileContent(k, old, new) ==
    [ok |-> save.pc # 2 * k - 1, val |-> IF save.pc >= 2 * k THEN new ELSE old]

\* config._read_json: the fallback when the text is no JSON
ReadJson(file, fallback) == IF file.ok THEN file.val ELSE fallback

\* config.load_config with the split files in place
LoadConfig ==
    [buses |-> ReadJson(FileContent(1, cfg.buses, save.new.buses), <<>>),
     rules |-> ReadJson(FileContent(2, cfg.rules, save.new.rules), <<>>),
     mic_routes |-> ReadJson(FileContent(4, cfg, save.new), DefaultConfig).mic_routes,
     input_routes |->
        ReadJson(FileContent(3, cfg.input_routes, save.new.input_routes),
                 ReadJson(FileContent(4, cfg, save.new), DefaultConfig).input_routes)]

\* core.apply_once against a server with the given fault
ApplyOnceWith(lag, fault) ==
    /\ SaveState(ApplyOnceRun(CtxWith(fault), LoadConfig, lag))
    /\ op' = "apply"
    /\ UNCHANGED dvars
    /\ UNCHANGED cfg

\* core.apply_once: the server after its commands, state.json after save_state
ApplyOnce(lag) == ApplyOnceWith(lag, NoFault)

\* the daemon's fast path for one sink-input id
FastRoute(sid) ==
    /\ Server(RouteSinkInputNow(Ctx, cfg, sid).x)
    /\ op' = "fast"
    /\ UNCHANGED dvars
    /\ UNCHANGED <<cfg, st>>

\* core.route_source_output_now for one source-output id
FastRouteMic(sid) ==
    /\ Server(RouteSourceOutputNow(Ctx, cfg, sid).x)
    /\ op' = "fast"
    /\ UNCHANGED dvars
    /\ UNCHANGED <<cfg, st>>

\* the bus that is added, routed and deleted; BusB stays a name that is never
\* configured (a virtual sink that does not exist)
BusNames == {BusA}
RouteChoices == {RouteDefault, RouteNone, Hw1, Hw10, BusA, BusB, MonitorOf(Hw1)}
InputSources == {Mic, Mic2, MonitorOf(BusA)}

ConfiguredBuses == {cfg.buses[i].name : i \in DOMAIN cfg.buses}

\* the configuration with a bus appended, route_to = default (gui.add_bus)
WithBus(c, name) ==
    [c EXCEPT !.buses = Append(@, [name |-> name, route_to |-> RouteDefault])]

\* the configuration without a bus and without the rules that target it
\* (gui.delete_bus)
WithoutBus(c, name) ==
    [c EXCEPT !.buses = SelectSeq(@, LAMBDA b : b.name # name),
              !.rules = SelectSeq(@, LAMBDA r : r.target_bus # name)]

AddBus(name) ==
    /\ name \notin ConfiguredBuses
    /\ cfg' = WithBus(cfg, name)
    /\ op' = "other"
    /\ UNCHANGED dvars
    /\ UNCHANGED <<st, mods, pend, def, hw, sin, sout>>

DeleteBus(name) ==
    /\ name \in ConfiguredBuses
    /\ cfg' = WithoutBus(cfg, name)
    /\ op' = "other"
    /\ UNCHANGED dvars
    /\ UNCHANGED <<st, mods, pend, def, hw, sin, sout>>

\* the route_to of a bus is changed (gui.set_route, or an edit of vsinks.json)
SetRoute(name, route_to) ==
    /\ \E i \in DOMAIN cfg.buses :
          /\ cfg.buses[i].name = name
          /\ cfg.buses[i].route_to # route_to
          /\ cfg' = [cfg EXCEPT !.buses[i].route_to = route_to]
    /\ op' = "other"
    /\ UNCHANGED dvars
    /\ UNCHANGED <<st, mods, pend, def, hw, sin, sout>>

\* an input route is set for a source, one per source (gui.py 789-803, or an
\* edit of input-routes.json)
SetInputRoute(source, target_bus) ==
    /\ [source |-> source, target_bus |-> target_bus] \notin Range(cfg.input_routes)
    /\ LET rest == SelectSeq(cfg.input_routes, LAMBDA r : r.source # source)
       IN /\ Len(rest) < MaxInputRoutes
          /\ cfg' = [cfg EXCEPT !.input_routes =
                        Append(rest, [source |-> source, target_bus |-> target_bus])]
    /\ op' = "other"
    /\ UNCHANGED dvars
    /\ UNCHANGED <<st, mods, pend, def, hw, sin, sout>>

RemoveInputRoute(source) ==
    /\ \E i \in DOMAIN cfg.input_routes : cfg.input_routes[i].source = source
    /\ cfg' = [cfg EXCEPT !.input_routes = SelectSeq(@, LAMBDA r : r.source # source)]
    /\ op' = "other"
    /\ UNCHANGED dvars
    /\ UNCHANGED <<st, mods, pend, def, hw, sin, sout>>

\* the configurations one edit in the window leads to (gui.add_bus,
\* gui.delete_bus, gui.set_route)
Edits ==
    ({WithBus(cfg, n) : n \in BusNames \ ConfiguredBuses}
        \cup {WithoutBus(cfg, n) : n \in ConfiguredBuses}
        \cup {[cfg EXCEPT !.buses[i].route_to = r] :
                  i \in DOMAIN cfg.buses, r \in {RouteDefault, RouteNone, Hw10}})
    \ {cfg}

\* config.save_config 92-97: a handler of the window has loaded the
\* configuration and changed it; vsinks.json is opened for writing
SaveConfigBegin(new) ==
    /\ save.pc = 0
    /\ save' = [pc |-> 1, new |-> new]
    /\ op' = "other"
    /\ UNCHANGED <<cfg, st, mods, pend, def, hw, sin, sout>>
    /\ UNCHANGED <<lockfile, procs, up, runs, ui>>

\* config.save_config 97-100: the text of a file is written, or the next file
\* is opened
SaveConfigStep ==
    /\ save.pc \in 1..6
    /\ save' = [save EXCEPT !.pc = @ + 1]
    /\ op' = "other"
    /\ UNCHANGED <<cfg, st, mods, pend, def, hw, sin, sout>>
    /\ UNCHANGED <<lockfile, procs, up, runs, ui>>

\* config.save_config 100: the text of config.json is written
SaveConfigEnd ==
    /\ save.pc = 7
    /\ cfg' = save.new
    /\ save' = NoSave
    /\ op' = "other"
    /\ UNCHANGED <<st, mods, pend, def, hw, sin, sout>>
    /\ UNCHANGED <<lockfile, procs, up, runs, ui>>

\* core.apply_once 223-224: load_config and load_state
Loaded(c) == [on |-> TRUE, cfg |-> c, st |-> st]

\* core.apply_once 226-492 of a run that has loaded: the commands go to the
\* server as it is now, save_state writes the state built on the one loaded
FinishRun(t) ==
    /\ runs[t].on
    /\ SaveState(ApplyOnceRun([Ctx EXCEPT !.st = runs[t].st], runs[t].cfg, FALSE))
    /\ runs' = [runs EXCEPT ![t] = IdleRun]
    /\ op' = "apply"
    /\ UNCHANGED <<cfg, lockfile, procs, up, save>>

\* gui._apply_once_async 967-995, up to the start of the worker thread
ApplyOnceAsync(u) ==
    IF u.running THEN [u EXCEPT !.queued = TRUE]
    ELSE [u EXCEPT !.running = TRUE, !.worker = "started"]

\* gui.add_bus, up to the loads of its apply_once (the main thread stays in it)
UiAddBus(name) ==
    /\ ~runs["main"].on
    /\ name \notin ConfiguredBuses
    /\ cfg' = WithBus(cfg, name)
    /\ runs' = [runs EXCEPT !["main"] = Loaded(WithBus(cfg, name))]
    /\ op' = "other"
    /\ UNCHANGED <<st, mods, pend, def, hw, sin, sout>>
    /\ UNCHANGED <<lockfile, procs, up, save, ui>>

\* gui.delete_bus, up to the loads of its apply_once
UiDeleteBus(name) ==
    /\ ~runs["main"].on
    /\ name \in ConfiguredBuses
    /\ cfg' = WithoutBus(cfg, name)
    /\ runs' = [runs EXCEPT !["main"] = Loaded(WithoutBus(cfg, name))]
    /\ op' = "other"
    /\ UNCHANGED <<st, mods, pend, def, hw, sin, sout>>
    /\ UNCHANGED <<lockfile, procs, up, save, ui>>

\* gui.add_bus 953 / gui.delete_bus 964: the apply_once of the main thread
MainApply ==
    /\ FinishRun("main")
    /\ UNCHANGED ui

\* gui.set_route
UiSetRoute(name, route_to) ==
    /\ ~runs["main"].on
    /\ \E i \in DOMAIN cfg.buses :
          /\ cfg.buses[i].name = name
          /\ cfg.buses[i].route_to # route_to
          /\ cfg' = [cfg EXCEPT !.buses[i].route_to = route_to]
    /\ ui' = ApplyOnceAsync(ui)
    /\ op' = "other"
    /\ UNCHANGED <<st, mods, pend, def, hw, sin, sout>>
    /\ UNCHANGED <<lockfile, procs, up, save, runs>>

\* gui.py 976-978: the worker thread enters apply_once
WorkerLoad ==
    /\ ui.worker = "started"
    /\ runs' = [runs EXCEPT !["worker"] = Loaded(LoadConfig)]
    /\ ui' = [ui EXCEPT !.worker = "loaded"]
    /\ op' = "other"
    /\ UNCHANGED <<cfg, st, mods, pend, def, hw, sin, sout>>
    /\ UNCHANGED <<lockfile, procs, up, save>>

\* gui.py 978-994: the worker's apply_once returns, on_done goes to the main loop
WorkerApply ==
    /\ ui.worker = "loaded"
    /\ FinishRun("worker")
    /\ ui' = [ui EXCEPT !.worker = "done"]

\* gui.py 980-991: on_done on the main thread
OnDone ==
    /\ ui.worker = "done"
    /\ ~runs["main"].on
    /\ ui' = IF ui.queued THEN ApplyOnceAsync(IdleUi) ELSE IdleUi
    /\ op' = "other"
    /\ UNCHANGED <<cfg, st, mods, pend, def, hw, sin, sout>>
    /\ UNCHANGED <<lockfile, procs, up, save, runs>>

\* daemon._run_apply_once 108-110: the daemon's event thread enters apply_once
DaemonLoad ==
    /\ ~runs["daemon"].on
    /\ runs' = [runs EXCEPT !["daemon"] = Loaded(LoadConfig)]
    /\ op' = "other"
    /\ UNCHANGED <<cfg, st, mods, pend, def, hw, sin, sout>>
    /\ UNCHANGED <<lockfile, procs, up, save, ui>>

\* daemon._run_apply_once 110-112: its apply_once returns
DaemonApply ==
    /\ FinishRun("daemon")
    /\ UNCHANGED ui

\* the rules a user writes: by binary, by application name, with no key at
\* all, and for a bus that is not configured
RuleChoices ==
    {[match |-> Match({"binary"}, <<"vivaldi">>, EmptyStr, EmptyStr), target_bus |-> BusA],
     [match |-> Match({"app"}, EmptyStr, <<"Vivaldi">>, EmptyStr), target_bus |-> SystemBus],
     [match |-> Match({}, EmptyStr, EmptyStr, EmptyStr), target_bus |-> BusA],
     [match |-> Match({"binary"}, <<"vivaldi">>, EmptyStr, EmptyStr), target_bus |-> BusB]}

MicRouteChoices ==
    {[match |-> Match({"binary"}, <<"vivaldi">>, EmptyStr, EmptyStr), target_bus |-> BusA],
     [match |-> Match({}, EmptyStr, EmptyStr, EmptyStr), target_bus |-> BusA]}

\* a stream rule is appended (gui.py 908-927, or an edit of routing-rules.json)
AddRule(r) ==
    /\ Len(cfg.rules) < MaxRules
    /\ cfg' = [cfg EXCEPT !.rules = Append(@, r)]
    /\ op' = "other"
    /\ UNCHANGED dvars
    /\ UNCHANGED <<st, mods, pend, def, hw, sin, sout>>

RemoveRule(i) ==
    /\ i \in DOMAIN cfg.rules
    /\ cfg' = [cfg EXCEPT !.rules = SubSeq(@, 1, i - 1) \o SubSeq(@, i + 1, Len(@))]
    /\ op' = "other"
    /\ UNCHANGED dvars
    /\ UNCHANGED <<st, mods, pend, def, hw, sin, sout>>

\* a microphone rule is appended (an edit of config.json: the only way)
AddMicRoute(r) ==
    /\ Len(cfg.mic_routes) < MaxRules
    /\ cfg' = [cfg EXCEPT !.mic_routes = Append(@, r)]
    /\ op' = "other"
    /\ UNCHANGED dvars
    /\ UNCHANGED <<st, mods, pend, def, hw, sin, sout>>

RemoveMicRoute(i) ==
    /\ i \in DOMAIN cfg.mic_routes
    /\ cfg' = [cfg EXCEPT !.mic_routes = SubSeq(@, 1, i - 1) \o SubSeq(@, i + 1, Len(@))]
    /\ op' = "other"
    /\ UNCHANGED dvars
    /\ UNCHANGED <<st, mods, pend, def, hw, sin, sout>>

\* the streams applications open: a browser, a desktop event sound, and a
\* browser's event sound
Props(role, app, binary) ==
    [NoProps EXCEPT !["media.role"] = role, !["application.name"] = app,
                    !["application.process.binary"] = binary]
PVivaldi == Props(EmptyStr, <<"Vivaldi">>, <<"vivaldi", "-bin">>)
PEvent == Props(<<"Event">>, EmptyStr, EmptyStr)
PVivaldiEvent == Props(<<"event">>, <<"Vivaldi">>, <<"vivaldi", "-bin">>)
StreamKinds == {PVivaldi, PEvent, PVivaldiEvent}
CaptureKinds == {PVivaldi, PEvent}
StreamIds == 1..MaxStreams

\* server: an application opens a playback stream, on the default sink
NewStream(props) ==
    /\ def # EmptyStr
    /\ \E id \in StreamIds :
          /\ \A s \in sin : s.id # id
          /\ \A k \in 1..(id - 1) : \E s \in sin : s.id = k
          /\ sin' = sin \cup {[id |-> id, props |-> props, sink |-> def]}
    /\ op' = "other"
    /\ UNCHANGED dvars
    /\ UNCHANGED <<cfg, st, mods, pend, def, hw, sout>>

\* server: a playback stream ends
StreamEnd(id) ==
    /\ \E s \in sin : s.id = id
    /\ sin' = {s \in sin : s.id # id}
    /\ op' = "other"
    /\ UNCHANGED dvars
    /\ UNCHANGED <<cfg, st, mods, pend, def, hw, sout>>

\* server: an application opens a capture stream, on the microphone
NewCapture(props) ==
    /\ \E id \in StreamIds :
          /\ \A s \in sout : s.id # id
          /\ \A k \in 1..(id - 1) : \E s \in sout : s.id = k
          /\ sout' = sout \cup {[id |-> id, props |-> props, source |-> Mic]}
    /\ op' = "other"
    /\ UNCHANGED dvars
    /\ UNCHANGED <<cfg, st, mods, pend, def, hw, sin>>

\* server: a capture stream ends
CaptureEnd(id) ==
    /\ \E s \in sout : s.id = id
    /\ sout' = {s \in sout : s.id # id}
    /\ op' = "other"
    /\ UNCHANGED dvars
    /\ UNCHANGED <<cfg, st, mods, pend, def, hw, sin>>

\* server: the monitor sources of the fresh null sinks appear
MonitorAppears ==
    /\ pend # {}
    /\ pend' = {}
    /\ op' = "other"
    /\ UNCHANGED dvars
    /\ UNCHANGED <<cfg, st, mods, def, hw, sin, sout>>

\* server: a loopback whose sink is gone (or never was there) ends by itself
\* sooner or later, or stays: it was loaded with sink_dont_move=true
OrphanLoopbackEnds(id) ==
    /\ \E m \in mods :
          /\ m.id = id
          /\ m.name = LoopbackName
          /\ ~SinkExists(Ctx, m.sink)
          /\ mods' = mods \ {m}
    /\ op' = "other"
    /\ UNCHANGED dvars
    /\ UNCHANGED <<cfg, st, pend, def, hw, sin, sout>>

\* the module ids the server hands out in this model
ModuleIds == 1..(4 + MaxInputRoutes)

\* server: the user makes another sink the default
SetDefault(name) ==
    /\ name # def
    /\ name \in Range(ListSinks(Ctx))
    /\ def' = name
    /\ op' = "other"
    /\ UNCHANGED dvars
    /\ UNCHANGED <<cfg, st, mods, pend, hw, sin, sout>>

\* server: a hardware sink goes away (unplugged); the streams on it and the
\* default fall back
HwUnplug(name) ==
    /\ name \in Range(hw)
    /\ hw' = SelectSeq(hw, LAMBDA n : n # name)
    /\ LET x == [Ctx EXCEPT !.hw = hw']
           d == DefaultAfter(def, ListSinks(x))
       IN /\ def' = d
          /\ sin' = {IF s.sink = name THEN [s EXCEPT !.sink = d] ELSE s : s \in sin}
    /\ op' = "other"
    /\ UNCHANGED dvars
    /\ UNCHANGED <<cfg, st, mods, pend, sout>>

\* server: a hardware sink appears (plugged in), listed after the others
HwPlug(name) ==
    /\ name \notin Range(hw)
    /\ hw' = Append(hw, name)
    /\ def' = IF def = EmptyStr THEN name ELSE def
    /\ op' = "other"
    /\ UNCHANGED dvars
    /\ UNCHANGED <<cfg, st, mods, pend, sin, sout>>

\* server: it restarts; modules and streams are gone, ids start over
ServerRestart ==
    /\ mods # {}
    /\ mods' = {}
    /\ pend' = {}
    /\ def' = DefaultAfter(def, hw)
    /\ sin' = {}
    /\ sout' = {}
    /\ op' = "other"
    /\ UNCHANGED dvars
    /\ UNCHANGED <<cfg, st, hw>>

\* ------------------------------------------------------------------ daemon.py

\* the process exists (os.kill(pid, 0) finds it)
Live(p) == procs[p].pc \notin {"idle", "exited"}

\* the places inside _try_acquire_daemon_lock
AcquirePcs == {"open", "read", "alive", "unlink", "retry", "write"}

\* a test of the recorded pid that never finds the process (the fault C12 excludes)
PidNeverAlive(pid) == FALSE

\* daemon._pid_alive
PidAlive(pid) ==
    IF pid <= 0 THEN FALSE ELSE (pid \in Procs /\ Live(pid))

\* _try_acquire_daemon_lock returns False: run_daemon returns (line 206) and the
\* process ends; no atexit handler was registered
ReturnFalse(p) ==
    procs' = [procs EXCEPT ![p].got = "false", ![p].pc = "exited"]

\* a daemon process is started (signal handlers are installed on import)
Start(p) ==
    /\ procs[p].pc = "idle"
    /\ procs' = [q \in Procs |->
                    IF q = p
                    THEN [procs[q] EXCEPT !.pc = "open",
                                          !.alone = \A r \in Procs \ {p} : ~Live(r)]
                    ELSE IF procs[q].pc \in AcquirePcs
                    THEN [procs[q] EXCEPT !.alone = FALSE]
                    ELSE procs[q]]
    /\ UNCHANGED <<svars, pvars, lockfile, up>>

\* daemon.py 63-65: os.open with O_CREAT | O_EXCL
LockOpen(p) ==
    /\ procs[p].pc = "open"
    /\ IF lockfile = NoFile
       THEN /\ lockfile' = [ino |-> p, txt |-> 0]
            /\ procs' = [procs EXCEPT ![p].pc = "write", ![p].fd = p, ![p].tries = @ + 1]
       ELSE /\ procs' = [procs EXCEPT ![p].pc = "read", ![p].tries = @ + 1]
            /\ UNCHANGED lockfile
    /\ UNCHANGED <<svars, pvars, up>>

\* daemon.py 67-72: read the pid; a file that is gone raises, an empty one reads -1
LockRead(p) ==
    /\ procs[p].pc = "read"
    /\ IF lockfile = NoFile
       THEN ReturnFalse(p)
       ELSE procs' = [procs EXCEPT ![p].pc = "alive",
                                   ![p].rd = IF lockfile.txt = 0 THEN -1 ELSE lockfile.txt]
    /\ UNCHANGED <<svars, pvars, lockfile, up>>

\* daemon.py 74-75
LockCheck(p) ==
    /\ procs[p].pc = "alive"
    /\ IF PidAlive(procs[p].rd)
       THEN ReturnFalse(p)
       ELSE procs' = [procs EXCEPT ![p].pc = "unlink"]
    /\ UNCHANGED <<svars, pvars, lockfile, up>>

\* daemon.py 78-81: the stale lock is removed, whatever file is there by now
LockUnlink(p) ==
    /\ procs[p].pc = "unlink"
    /\ IF lockfile = NoFile
       THEN ReturnFalse(p) /\ UNCHANGED lockfile
       ELSE /\ lockfile' = NoFile
            /\ procs' = [procs EXCEPT ![p].pc = "retry"]
    /\ UNCHANGED <<svars, pvars, up>>

\* daemon.py 83-86: the one retry of os.open
LockRetry(p) ==
    /\ procs[p].pc = "retry"
    /\ IF lockfile = NoFile
       THEN /\ lockfile' = [ino |-> p, txt |-> 0]
            /\ procs' = [procs EXCEPT ![p].pc = "write", ![p].fd = p, ![p].tries = @ + 1]
       ELSE /\ procs' = [procs EXCEPT ![p].got = "false", ![p].pc = "exited",
                                      ![p].tries = @ + 1]
            /\ UNCHANGED lockfile
    /\ UNCHANGED <<svars, pvars, up>>

\* daemon.py 88-95: the pid is written through the descriptor (into the file of
\* that name only if it is still the file created), atexit is registered, True
LockWrite(p) ==
    /\ procs[p].pc = "write"
    /\ lockfile' = IF lockfile.ino = procs[p].fd THEN [lockfile EXCEPT !.txt = p]
                   ELSE lockfile
    /\ procs' = [procs EXCEPT ![p].pc = "wait", ![p].got = "true"]
    /\ UNCHANGED <<svars, pvars, up>>

\* a termination signal arrives: daemon._handle_stop sets _STOP
Stop(p) ==
    /\ Live(p)
    /\ ~procs[p].stop
    /\ procs' = [procs EXCEPT ![p].stop = TRUE]
    /\ UNCHANGED <<svars, pvars, lockfile, up>>

\* run_daemon without its test of wait_for_pipewire's result (209-210)
WaitResultIgnored(p, elapsed) ==
    /\ procs[p].pc = "wait"
    /\ IF elapsed \/ procs[p].stop
       THEN procs' = [procs EXCEPT ![p].pc = "initial"]
       ELSE IF up
       THEN procs' = [procs EXCEPT ![p].pc = "initial", ![p].sawup = TRUE]
       ELSE UNCHANGED procs
    /\ UNCHANGED <<svars, pvars, lockfile, up>>

\* daemon.wait_for_pipewire, one round of its loop; `elapsed`: 15 s have passed
WaitForPipewire(p, elapsed) ==
    /\ procs[p].pc = "wait"
    /\ IF elapsed \/ procs[p].stop
       THEN procs' = [procs EXCEPT ![p].pc = "returned"]
       ELSE IF up
       THEN procs' = [procs EXCEPT ![p].pc = "initial", ![p].sawup = TRUE]
       ELSE UNCHANGED procs
    /\ UNCHANGED <<svars, pvars, lockfile, up>>

\* run_daemon has returned: atexit runs daemon._cleanup_lock, which reads the
\* lock file (48) and compares the text with its own pid (49); a file that is
\* gone or holds something else ends the process
DaemonReturn(p) ==
    /\ procs[p].pc = "returned"
    /\ procs' = IF lockfile # NoFile /\ lockfile.txt = p
                THEN [procs EXCEPT ![p].pc = "cleanup", ![p].watch = FALSE]
                ELSE [procs EXCEPT ![p].pc = "exited", ![p].watch = FALSE]
    /\ UNCHANGED <<svars, pvars, lockfile, up>>

\* daemon._cleanup_lock line 50: LOCK_FILE.unlink() removes the file that has
\* the name by now; FileNotFoundError is swallowed (51-52); the process ends
CleanupUnlink(p) ==
    /\ procs[p].pc = "cleanup"
    /\ lockfile' = NoFile
    /\ procs' = [procs EXCEPT ![p].pc = "exited"]
    /\ UNCHANGED <<svars, pvars, up>>

\* the process is killed: nothing is cleaned up
Crash(p) ==
    /\ Live(p)
    /\ procs' = [procs EXCEPT ![p].pc = "exited", ![p].watch = FALSE]
    /\ UNCHANGED <<svars, pvars, lockfile, up>>

\* the reconciliations a process is counted for (the count stops there)
MaxApply == 2
Bump(n) == IF n < MaxApply THEN n + 1 ELSE n

\* daemon._run_apply_once: apply_once with whatever it raises swallowed
RunApplyOnce(x) ==
    /\ SaveState(ApplyOnceRun(x, LoadConfig, FALSE))
    /\ op' = "apply"
    /\ UNCHANGED cfg

\* run_daemon 213: the initial reconciliation
InitialApply(p) ==
    /\ procs[p].pc = "initial"
    /\ RunApplyOnce(Ctx)
    /\ procs' = [procs EXCEPT ![p].pc = "watcher", ![p].napply = Bump(@)]
    /\ UNCHANGED <<pvars, lockfile, up>>

\* run_daemon 216: the watcher thread is started
StartWatcher(p) ==
    /\ procs[p].pc = "watcher"
    /\ procs' = [procs EXCEPT ![p].pc = "import", ![p].watch = TRUE]
    /\ UNCHANGED <<svars, pvars, lockfile, up>>

\* daemon._watch_new_sink_inputs 192: the watcher's loop sees _STOP
WatcherExit(p) ==
    /\ procs[p].watch
    /\ procs[p].stop
    /\ Live(p)
    /\ procs' = [procs EXCEPT ![p].watch = FALSE]
    /\ UNCHANGED <<svars, pvars, lockfile, up>>

\* run_daemon 219-226: pulsectl can be imported, or not
ImportPulsectl(p, found) ==
    /\ procs[p].pc = "import"
    /\ procs' = [procs EXCEPT ![p].pc = IF found THEN "pl_top" ELSE "fb_top"]
    /\ UNCHANGED <<svars, pvars, lockfile, up>>

\* a loop that is left when the subscription has ended, whatever the stop flag
\* says (the fault C27 excludes)
FallbackGivesUp(p) ==
    /\ procs[p].pc = "fb_top"
    /\ procs' = IF procs[p].stop \/ procs[p].napply > 1
                THEN [procs EXCEPT ![p].pc = "returned"]
                ELSE [procs EXCEPT ![p].pc = "fb_check", ![p].sub = TRUE,
                                   ![p].inbox = "none"]
    /\ UNCHANGED <<svars, pvars, lockfile, up>>

\* _fallback_subscribe 283-299: the loop's test, then `pactl subscribe` is started
FallbackTop(p) ==
    /\ procs[p].pc = "fb_top"
    /\ procs' = IF procs[p].stop
                THEN [procs EXCEPT ![p].pc = "returned"]
                ELSE [procs EXCEPT ![p].pc = "fb_check", ![p].sub = TRUE,
                                   ![p].inbox = "none", ![p].last = 0, ![p].lastm = 0,
                                   ![p].acc = -1, ![p].rec = -1, ![p].prec = -1]
    /\ UNCHANGED <<svars, pvars, lockfile, up>>

\* _fallback_subscribe 300: the inner loop's test; 321-329 when it fails
FallbackCheck(p) ==
    /\ procs[p].pc = "fb_check"
    /\ procs' = IF procs[p].stop
                THEN [procs EXCEPT ![p].pc = "fb_top", ![p].sub = FALSE, ![p].inbox = "none"]
                ELSE [procs EXCEPT ![p].pc = "fb_read"]
    /\ UNCHANGED <<svars, pvars, lockfile, up>>

\* _fallback_subscribe 301-317: readline returns a line (or "" at the end of
\* the output); before that the thread sits in the read, which a signal whose
\* handler returns does not end (the read is retried). `due`: the debounce
\* and maintenance intervals have passed
FallbackRead(p, sid, due) ==
    /\ procs[p].pc = "fb_read"
    /\ procs[p].inbox # "none"
    /\ IF procs[p].inbox = "eof"
       THEN /\ procs' = [procs EXCEPT ![p].pc = "fb_top", ![p].sub = FALSE,
                                      ![p].inbox = "none"]
            /\ UNCHANGED svars
       ELSE IF procs[p].inbox = "new"
       THEN /\ RunApplyOnce(RouteSinkInputNow(Ctx, LoadConfig, sid).x)
            /\ UNCHANGED hw
            /\ procs' = [procs EXCEPT ![p].pc = "fb_check", ![p].inbox = "none",
                                      ![p].napply = Bump(@)]
       ELSE IF due
       THEN /\ RunApplyOnce(Ctx)
            /\ procs' = [procs EXCEPT ![p].pc = "fb_check", ![p].inbox = "none",
                                      ![p].napply = Bump(@)]
       ELSE /\ procs' = [procs EXCEPT ![p].pc = "fb_check", ![p].inbox = "none"]
            /\ UNCHANGED svars
    /\ UNCHANGED <<pvars, lockfile, up>>

\* run_daemon 229-236: the reconnect loop's test, then the connection; when the
\* server does not answer the constructor raises (263-265) and the loop goes round
PulseTop(p) ==
    /\ procs[p].pc = "pl_top"
    /\ procs[p].stop \/ up
    /\ procs' = IF procs[p].stop
                THEN [procs EXCEPT ![p].pc = "returned"]
                ELSE [procs EXCEPT ![p].pc = "pl_check", ![p].sub = TRUE,
                                   ![p].inbox = "none", ![p].last = 0, ![p].lastm = 0,
                                   ![p].acc = -1, ![p].rec = -1, ![p].prec = -1]
    /\ UNCHANGED <<svars, pvars, lockfile, up>>

\* run_daemon 260: the inner loop's test
PulseCheck(p) ==
    /\ procs[p].pc = "pl_check"
    /\ procs' = IF procs[p].stop
                THEN [procs EXCEPT ![p].pc = "pl_top", ![p].sub = FALSE, ![p].inbox = "none"]
                ELSE [procs EXCEPT ![p].pc = "pl_listen"]
    /\ UNCHANGED <<svars, pvars, lockfile, up>>

\* run_daemon 238-261: pulse.event_listen() has an event and calls cb, or the
\* connection is lost and it raises; `back`: event_listen returns after the
\* callback (the library decides)
PulseListen(p, sid, due, back) ==
    /\ procs[p].pc = "pl_listen"
    /\ procs[p].inbox # "none"
    /\ IF procs[p].inbox = "eof"
       THEN /\ procs' = [procs EXCEPT ![p].pc = "pl_top", ![p].sub = FALSE,
                                      ![p].inbox = "none"]
            /\ UNCHANGED svars
       ELSE IF procs[p].inbox = "new"
       THEN /\ RunApplyOnce(RouteSinkInputNow(Ctx, LoadConfig, sid).x)
            /\ procs' = [procs EXCEPT ![p].pc = IF back THEN "pl_check" ELSE "pl_listen",
                                      ![p].inbox = "none", ![p].napply = Bump(@)]
       ELSE IF due
       THEN /\ RunApplyOnce(Ctx)
            /\ procs' = [procs EXCEPT ![p].pc = IF back THEN "pl_check" ELSE "pl_listen",
                                      ![p].inbox = "none", ![p].napply = Bump(@)]
       ELSE /\ procs' = [procs EXCEPT ![p].pc = IF back THEN "pl_check" ELSE "pl_listen",
                                      ![p].inbox = "none"]
            /\ UNCHANGED svars
    /\ UNCHANGED <<pvars, lockfile, up>>

\* run_daemon 261: pulse.event_listen() comes back after a signal was handled
\* although no event arrived (the library may do so, nothing in run_daemon
\* makes it)
ListenInterrupted(p) ==
    /\ procs[p].pc = "pl_listen"
    /\ procs[p].stop
    /\ procs' = [procs EXCEPT ![p].pc = "pl_check"]
    /\ UNCHANGED <<svars, pvars, lockfile, up>>

\* the server has an event for a subscriber that waits for one ("new": a new
\* sink-input; "other"), or the subscription ends ("eof": `pactl subscribe`
\* exits, the connection is lost)
ServerEvent(p, kind) ==
    /\ procs[p].pc \in {"fb_read", "pl_listen"}
    /\ procs[p].inbox = "none"
    /\ procs' = [procs EXCEPT ![p].inbox = kind]
    /\ UNCHANGED <<svars, pvars, lockfile, up>>

\* the sound server starts to answer
ServerComesUp ==
    /\ ~up
    /\ up' = TRUE
    /\ UNCHANGED <<svars, pvars, lockfile, procs>>

\* what a daemon process does by itself, from its start to its return
Program(p) ==
    \/ LockOpen(p) \/ LockRead(p) \/ LockCheck(p) \/ LockUnlink(p) \/ LockRetry(p)
    \/ LockWrite(p)
    \/ \E e \in BOOLEAN : WaitForPipewire(p, e)
    \/ InitialApply(p)
    \/ StartWatcher(p)
    \/ WatcherExit(p)
    \/ \E found \in BOOLEAN : ImportPulsectl(p, found)
    \/ FallbackTop(p)
    \/ FallbackCheck(p)
    \/ \E sid \in StreamIds, due \in BOOLEAN : FallbackRead(p, sid, due)
    \/ PulseTop(p)
    \/ PulseCheck(p)
    \/ \E sid \in StreamIds, due, back \in BOOLEAN : PulseListen(p, sid, due, back)
    \/ DaemonReturn(p)
    \/ CleanupUnlink(p)

\* --- the daemon from start to return: signals, events, a server that is late.
\* Daemons are started apart, none while another one is inside
\* _try_acquire_daemon_lock (the races of the lock are SpecLock's)
NextDaemon ==
    \/ \E p \in Procs :
            /\ \A q \in Procs \ {p} : procs[q].pc \notin AcquirePcs
            /\ Start(p)
    \/ \E p \in Procs : Program(p)
    \/ \E p \in Procs : Stop(p)
    \/ \E p \in Procs : ListenInterrupted(p)
    \/ \E p \in Procs, k \in {"new", "other", "eof"} : ServerEvent(p, k)
    \/ ServerComesUp

InitDaemon ==
    /\ InitServer
    /\ lockfile \in {NoFile, StaleLock}
    /\ procs = [p \in Procs |-> IdleProc]
    /\ up \in BOOLEAN
    /\ NoOverlap

SpecDaemon == InitDaemon /\ [][NextDaemon]_vars

\* the scheduler runs every process that can take a step, and the library is
\* granted that event_listen comes back once a signal was handled; signals,
\* events and the server's coming up are owed to nobody
SpecDaemonFair ==
    /\ SpecDaemon
    /\ \A p \in Procs : WF_vars(Program(p))
    /\ \A p \in Procs : WF_vars(ListenInterrupted(p))

\* --- the event loop with its clock. Time is counted in quarters of a second
EVENT_DEBOUNCE_SEC == 1
MAINTENANCE_APPLY_SEC == 20
MaxClock == 42

\* the decimal numerals of the ids, and int() of a numeral
Numerals == <<"1", "2", "3", "4">>
IntOf(tok) == CHOOSE i \in 1..Len(Numerals) : Numerals[i] = tok

\* the lines of `pactl subscribe`, as it prints them
SubscribeLine(type, facility, index) ==
    <<"Event", " ", type, " ", "on", " ", facility, " ", "#", Numerals[index]>>

\* the lines and events of the model: sink-inputs that are new, changed and
\* removed, and a new sink
EventTypes == {"'new'", "'change'", "'remove'"}
Lines ==
    {SubscribeLine(t, "sink-input", i) : t \in EventTypes, i \in StreamIds}
        \cup {SubscribeLine("'new'", "sink", i) : i \in StreamIds}
PulseEvents == {[t |-> t, index |-> i] : t \in {"new", "change", "remove"}, i \in StreamIds}

\* the index the server put at the end of the line
LineIndex(line) == IntOf(line[Len(line)])

\* daemon._is_new_sink_input_event_line
IsNewSinkInputEventLine(line) ==
    /\ Contains(Lower(line), <<"on", " ", "sink-input">>)
    /\ Contains(Lower(line), <<"'new'">>)

\* daemon._sink_input_id_from_subscribe_line: sink-input\s+#(\d+), 0 for ""
SinkInputIdFromSubscribeLine(line) ==
    LET hits == {i \in 1..(Len(line) - 3) :
                    /\ Lower(line)[i] = "sink-input"
                    /\ line[i + 1] = " "
                    /\ line[i + 2] = "#"
                    /\ \E k \in 1..Len(Numerals) : Numerals[k] = line[i + 3]}
    IN IF hits = {} THEN 0
       ELSE IntOf(line[(CHOOSE i \in hits : \A j \in hits : i <= j) + 3])

\* daemon._is_new_pulsectl_event / _sink_input_id_from_pulsectl_event
IsNewPulsectlEvent(ev) == ev.t = "new"
SinkInputIdFromPulsectlEvent(ev) == ev.index

Call(name, id) == [call |-> name, id |-> id]

\* an "other" event that always gets through to the reconciliation (the fault
\* C24 excludes)
OtherEventUnchecked(t, now) ==
    [last |-> now, lastm |-> now, calls |-> <<Call("apply_once", 0)>>]

\* _fallback_subscribe 310-317, run_daemon 246-256: an event that is not a new
\* sink-input, at time `now`, with the timers t
OtherEvent(t, now) ==
    IF now - t.last < EVENT_DEBOUNCE_SEC
    THEN [last |-> t.last, lastm |-> t.lastm, calls |-> <<>>]
    ELSE IF now - t.lastm < MAINTENANCE_APPLY_SEC
    THEN [last |-> now, lastm |-> t.lastm, calls |-> <<>>]
    ELSE [last |-> now, lastm |-> now, calls |-> <<Call("apply_once", 0)>>]

\* a new sink-input that is debounced like every other event (the fault C25
\* excludes)
NewEventDebounced(t, sid, now) == OtherEvent(t, now)

\* _fallback_subscribe 305-308, run_daemon 241-244: a new sink-input;
\* _try_route_new_input_immediately does nothing for an empty id
NewEvent(t, sid, now) ==
    [last |-> t.last, lastm |-> t.lastm,
     calls |-> (IF sid = 0 THEN <<>> ELSE <<Call("route_sink_input_now", sid)>>)
                  \o <<Call("apply_once", 0)>>]

\* the body of the event loop for one event
OnEvent(t, is_new, sid, now) ==
    IF is_new THEN NewEvent(t, sid, now) ELSE OtherEvent(t, now)

\* the server after the fast path, when the calls begin with it
FastPath(calls) ==
    IF Head(calls).call = "route_sink_input_now"
    THEN RouteSinkInputNow(Ctx, LoadConfig, Head(calls).id).x
    ELSE Ctx

\* the calls of one event, carried out in order; the last of them is apply_once
RunCalls(calls) ==
    IF calls = <<>> THEN UNCHANGED svars ELSE RunApplyOnce(FastPath(calls))

\* what became of an event that is not a new sink-input
OtherOutcome(q, r) ==
    IF r.calls # <<>> THEN "reconciled"
    ELSE IF r.last # q.last THEN "held"
    ELSE "debounced"

\* what the event leaves in the process: the clock, the timers, the record of
\* what was let through
AfterEvent(q, r, is_new, index, now) ==
    [q EXCEPT !.clock = now, !.evid = index, !.last = r.last, !.lastm = r.lastm, !.did = r.calls,
              !.napply = IF r.calls # <<>> THEN Bump(@) ELSE @,
              !.tick = ~@,
              !.out = IF is_new THEN "routed" ELSE OtherOutcome(q, r),
              !.acc = IF ~is_new /\ r.last # q.last THEN now ELSE @,
              !.rec = IF ~is_new /\ r.calls # <<>> THEN now ELSE @,
              !.prec = IF ~is_new /\ r.calls # <<>> THEN q.rec ELSE @]

\* the steps the clock takes between two events
ClockSteps ==
    {0, EVENT_DEBOUNCE_SEC, MAINTENANCE_APPLY_SEC - EVENT_DEBOUNCE_SEC,
     MAINTENANCE_APPLY_SEC}

\* _fallback_subscribe 301-317: readline returns a line at time `now`
FallbackLine(p, line, now) ==
    /\ procs[p].pc = "fb_read"
    /\ procs[p].inbox = "none"
    /\ now - procs[p].clock \in ClockSteps
    /\ now <= MaxClock
    /\ RunCalls(OnEvent(procs[p], IsNewSinkInputEventLine(line),
                        SinkInputIdFromSubscribeLine(line), now).calls)
    /\ procs' = [procs EXCEPT ![p] =
                    [AfterEvent(@, OnEvent(@, IsNewSinkInputEventLine(line),
                                           SinkInputIdFromSubscribeLine(line), now),
                                IsNewSinkInputEventLine(line), LineIndex(line), now)
                        EXCEPT !.pc = "fb_check"]]
    /\ UNCHANGED <<pvars, lockfile, up>>

\* run_daemon 238-261: event_listen calls cb with an event at time `now`
PulseEvent(p, ev, now) ==
    /\ procs[p].pc = "pl_listen"
    /\ procs[p].inbox = "none"
    /\ now - procs[p].clock \in ClockSteps
    /\ now <= MaxClock
    /\ RunCalls(OnEvent(procs[p], IsNewPulsectlEvent(ev),
                        SinkInputIdFromPulsectlEvent(ev), now).calls)
    /\ procs' = [procs EXCEPT ![p] =
                    AfterEvent(@, OnEvent(@, IsNewPulsectlEvent(ev),
                                          SinkInputIdFromPulsectlEvent(ev), now),
                               IsNewPulsectlEvent(ev), ev.index, now)]
    /\ UNCHANGED <<pvars, lockfile, up>>

\* one daemon gets to its event loop and stays there: events come at their
\* times, the subscription ends and is taken up again
NextEvents ==
    \/ \E p \in Procs :
            /\ \A q \in Procs \ {p} : procs[q].pc = "idle"
            /\ Start(p)
    \/ \E p \in Procs : LockOpen(p) \/ LockWrite(p)
    \/ \E p \in Procs : WaitForPipewire(p, FALSE)
    \/ \E p \in Procs : InitialApply(p)
    \/ \E p \in Procs : StartWatcher(p)
    \/ \E p \in Procs, found \in BOOLEAN : ImportPulsectl(p, found)
    \/ \E p \in Procs : FallbackTop(p)
    \/ \E p \in Procs : FallbackCheck(p)
    \/ \E p \in Procs, line \in Lines, now \in 0..MaxClock : FallbackLine(p, line, now)
    \/ \E p \in Procs, sid \in StreamIds, due \in BOOLEAN : FallbackRead(p, sid, due)
    \/ \E p \in Procs : PulseTop(p)
    \/ \E p \in Procs : PulseCheck(p)
    \/ \E p \in Procs, ev \in PulseEvents, now \in 0..MaxClock : PulseEvent(p, ev, now)
    \/ \E p \in Procs, sid \in StreamIds, due, back \in BOOLEAN :
            PulseListen(p, sid, due, back)
    \/ \E p \in Procs : ServerEvent(p, "eof")

SpecEvents == Init /\ [][NextEvents]_vars

\* the scheduler runs the daemon whenever it can take a step of its own; when
\* the server has an event, and whether it ever has another one, is owed to
\* nobody
SpecEventsFair ==
    /\ SpecEvents
    /\ \A p \in Procs : WF_vars(Program(p))

\* --- the watcher thread and its scans

\* daemon._scan_sink_input_ids: the ids of the listing; the empty set when the
\* listing fails (pactl.try_pactl gives "", an exception gives set())
ScanSinkInputIds(x, ok) ==
    IF ok THEN {ListSinkInputs(x)[i].id : i \in 1..Len(ListSinkInputs(x))} ELSE {}

\* _watch_new_sink_inputs 195-196: the new ids go to the fast path, in order
RECURSIVE RouteEach(_, _)
RouteEach(x, ids) ==
    IF ids = {} THEN x
    ELSE LET sid == CHOOSE i \in ids : \A j \in ids : i <= j
         IN RouteEach(RouteSinkInputNow(x, LoadConfig, sid).x, ids \ {sid})

\* _watch_new_sink_inputs 191: the scan the thread begins with
WatcherFirstScan(p, ok) ==
    /\ procs[p].watch
    /\ procs[p].wpc = "none"
    /\ procs' = [procs EXCEPT ![p].wpc = "loop", ![p].seen = ScanSinkInputIds(Ctx, ok)]
    /\ UNCHANGED <<svars, pvars, lockfile, up>>

\* _watch_new_sink_inputs 192-199: one round of the loop
WatcherScan(p, ok) ==
    /\ procs[p].watch
    /\ procs[p].wpc = "loop"
    /\ ~procs[p].stop
    /\ Server(RouteEach(Ctx, ScanSinkInputIds(Ctx, ok) \ procs[p].seen))
    /\ op' = "fast"
    /\ UNCHANGED <<cfg, st>>
    /\ procs' = [procs EXCEPT ![p].seen = ScanSinkInputIds(Ctx, ok),
                              ![p].wdid = ScanSinkInputIds(Ctx, ok) \ procs[p].seen,
                              ![p].passed = @ \cup (ScanSinkInputIds(Ctx, ok) \ procs[p].seen),
                              ![p].wtick = ~@]
    /\ UNCHANGED <<pvars, lockfile, up>>

\* server: a playback stream ends; what was passed for its id was passed for
\* a stream that is no more
StreamGone(id) ==
    /\ \E s \in sin : s.id = id
    /\ sin' = {s \in sin : s.id # id}
    /\ op' = "other"
    /\ procs' = [q \in Procs |-> [procs[q] EXCEPT !.passed = @ \ {id}]]
    /\ UNCHANGED <<cfg, st, mods, pend, def, hw, sout>>
    /\ UNCHANGED <<pvars, lockfile, up>>

\* --- the lock: daemons are started, stopped and killed
NextLock ==
    \/ \E p \in Procs : Start(p)
    \/ \E p \in Procs : LockOpen(p)
    \/ \E p \in Procs : LockRead(p)
    \/ \E p \in Procs : LockCheck(p)
    \/ \E p \in Procs : LockUnlink(p)
    \/ \E p \in Procs : LockRetry(p)
    \/ \E p \in Procs : LockWrite(p)
    \/ \E p \in Procs : Stop(p)
    \/ \E p \in Procs, e \in BOOLEAN : WaitForPipewire(p, e)
    \/ \E p \in Procs : DaemonReturn(p)
    \/ \E p \in Procs : CleanupUnlink(p)
    \/ \E p \in Procs : Crash(p)

InitLock ==
    /\ InitServer
    /\ lockfile \in {NoFile, StaleLock}
    /\ procs = [p \in Procs |-> IdleProc]
    /\ up = TRUE
    /\ NoOverlap

SpecLock == InitLock /\ [][NextLock]_vars

\* --- routing: one bus, its route and the input routes
Next ==
    \/ \E lag \in BOOLEAN : ApplyOnce(lag)
    \/ \E n \in BusNames : AddBus(n)
    \/ \E n \in BusNames : DeleteBus(n)
    \/ \E n \in BusNames, r \in RouteChoices : SetRoute(n, r)
    \/ \E s \in InputSources, t \in BusNames : SetInputRoute(s, t)
    \/ \E s \in InputSources : RemoveInputRoute(s)
    \/ MonitorAppears
    \/ \E id \in ModuleIds : OrphanLoopbackEnds(id)

Spec == Init /\ [][Next]_vars

\* --- routing against a server that refuses one command of a run
MaxFaultNth == 2
FaultKinds == {"load-null-sink", "load-loopback", "unload-module", "move-sink-input"}
Faults == {[kind |-> k, nth |-> n] : k \in FaultKinds, n \in 1..MaxFaultNth}

NextFaults ==
    \/ \E lag \in {FALSE}, f \in Faults \cup {NoFault} : ApplyOnceWith(lag, f)
    \/ \E n \in BusNames : AddBus(n)
    \/ \E n \in BusNames : DeleteBus(n)
    \/ \E n \in BusNames, r \in {RouteDefault, RouteNone, Hw10} : SetRoute(n, r)
    \/ \E s \in {Mic}, t \in BusNames : SetInputRoute(s, t)
    \/ \E s \in {Mic} : RemoveInputRoute(s)
    \/ \E id \in ModuleIds : OrphanLoopbackEnds(id)

SpecFaults == Init /\ [][NextFaults]_vars

\* --- the window saves the configuration while the daemon reconciles
NextSave ==
    \/ \E lag \in BOOLEAN : ApplyOnce(lag)
    \/ \E new \in Edits : SaveConfigBegin(new)
    \/ SaveConfigStep
    \/ SaveConfigEnd
    \/ MonitorAppears

SpecSave == Init /\ [][NextSave]_vars

\* --- the daemon and the window reconcile next to each other
NextOverlap ==
    \/ \E n \in BusNames : UiAddBus(n)
    \/ \E n \in BusNames : UiDeleteBus(n)
    \/ MainApply
    \/ \E n \in BusNames, r \in {RouteDefault, RouteNone} : UiSetRoute(n, r)
    \/ WorkerLoad
    \/ WorkerApply
    \/ OnDone
    \/ DaemonLoad
    \/ DaemonApply

SpecOverlap == Init /\ [][NextOverlap]_vars

\* --- the default sink: the user's choice of default and the hardware change
NextDefault ==
    \/ \E lag \in BOOLEAN : ApplyOnce(lag)
    \/ \E n \in BusNames : AddBus(n)
    \/ \E n \in BusNames : DeleteBus(n)
    \/ \E n \in BusNames, r \in {RouteDefault, RouteNone} : SetRoute(n, r)
    \/ MonitorAppears
    \/ \E n \in BusNames \cup Range(HwSinks) : SetDefault(n)
    \/ \E n \in Range(HwSinks) : HwUnplug(n)
    \/ \E n \in Range(HwSinks) : HwPlug(n)

SpecDefault == Init /\ [][NextDefault]_vars

\* --- the server restarts under a state.json that outlives it
NextRestart ==
    \/ \E lag \in BOOLEAN : ApplyOnce(lag)
    \/ \E n \in BusNames : AddBus(n)
    \/ \E n \in BusNames : DeleteBus(n)
    \/ \E n \in BusNames, r \in {RouteDefault, RouteNone, BusA} : SetRoute(n, r)
    \/ \E s \in {Mic}, t \in BusNames : SetInputRoute(s, t)
    \/ \E s \in {Mic} : RemoveInputRoute(s)
    \/ MonitorAppears
    \/ ServerRestart

SpecRestart == Init /\ [][NextRestart]_vars

\* --- streams: two buses are configured (one the system bus, neither routed),
\* rules are written, streams come and go
StreamsConfig ==
    [DefaultConfig EXCEPT !.buses = <<[name |-> BusA, route_to |-> RouteNone],
                                     [name |-> SystemBus, route_to |-> RouteNone]>>]

InitStreams ==
    /\ cfg = StreamsConfig
    /\ st = EmptyState
    /\ mods = {}
    /\ pend = {}
    /\ hw = HwSinks
    /\ def = Hw1
    /\ sin = {}
    /\ sout = {}
    /\ op = "other"
    /\ NoDaemon

NextStreams ==
    \/ \E lag \in {FALSE} : ApplyOnce(lag)
    \/ \E r \in RuleChoices : AddRule(r)
    \/ \E i \in 1..MaxRules : RemoveRule(i)
    \/ \E p \in StreamKinds : NewStream(p)
    \/ \E id \in StreamIds : StreamEnd(id)
    \/ \E id \in StreamIds : FastRoute(id)

SpecStreams == InitStreams /\ [][NextStreams]_vars

\* --- all phases in one run: a routed bus and a rule to begin with; buses come
\* and go, the route changes, the rule is written again, a stream starts
VivaldiToA ==
    [match |-> Match({"binary"}, <<"vivaldi">>, EmptyStr, EmptyStr), target_bus |-> BusA]

PhasesConfig ==
    [DefaultConfig EXCEPT !.buses = <<[name |-> BusA, route_to |-> Hw1]>>,
                          !.rules = <<VivaldiToA>>]

InitPhases ==
    /\ cfg = PhasesConfig
    /\ st = EmptyState
    /\ mods = {}
    /\ pend = {}
    /\ hw = HwSinks
    /\ def = Hw1
    /\ sin = {}
    /\ sout = {}
    /\ op = "other"
    /\ NoDaemon

NextPhases ==
    \/ \E lag \in {FALSE} : ApplyOnce(lag)
    \/ \E n \in {BusA, BusB} : AddBus(n)
    \/ \E n \in {BusA, BusB} : DeleteBus(n)
    \/ \E n \in {BusA}, r \in {Hw1, Hw10} : SetRoute(n, r)
    \/ \E r \in {VivaldiToA} : AddRule(r)
    \/ \E props \in {PVivaldi} : NewStream(props)

SpecPhases == InitPhases /\ [][NextPhases]_vars

\* --- two buses that can be routed to the hardware and to each other
CycleConfig ==
    [DefaultConfig EXCEPT !.buses = <<[name |-> BusA, route_to |-> Hw1],
                                     [name |-> BusB, route_to |-> Hw1]>>]

InitCycle ==
    /\ cfg = CycleConfig
    /\ st = EmptyState
    /\ mods = {}
    /\ pend = {}
    /\ hw = HwSinks
    /\ def = Hw1
    /\ sin = {}
    /\ sout = {}
    /\ op = "other"
    /\ NoDaemon

NextCycle ==
    \/ \E lag \in BOOLEAN : ApplyOnce(lag)
    \/ \E n \in {BusA, BusB}, r \in {RouteDefault, RouteNone, BusA, BusB} : SetRoute(n, r)
    \/ MonitorAppears

SpecCycle == InitCycle /\ [][NextCycle]_vars

\* --- two microphones: input-routes.json routes both of them into one bus;
\* the bus comes and goes, its route changes, input routes are taken away
InputsConfig ==
    [DefaultConfig EXCEPT !.input_routes = <<[source |-> Mic2, target_bus |-> BusA],
                                            [source |-> Mic, target_bus |-> BusA]>>]

InitInputs ==
    /\ cfg = InputsConfig
    /\ st = EmptyState
    /\ mods = {}
    /\ pend = {}
    /\ hw = HwSinks
    /\ def = Hw1
    /\ sin = {}
    /\ sout = {}
    /\ op = "other"
    /\ NoDaemon

NextInputs ==
    \/ \E lag \in BOOLEAN : ApplyOnce(lag)
    \/ \E n \in BusNames : AddBus(n)
    \/ \E n \in BusNames : DeleteBus(n)
    \/ \E n \in BusNames, r \in {RouteDefault, RouteNone, Hw10} : SetRoute(n, r)
    \/ \E s \in {Mic, Mic2}, t \in BusNames : SetInputRoute(s, t)
    \/ \E s \in {Mic, Mic2} : RemoveInputRoute(s)
    \/ MonitorAppears

SpecInputs == InitInputs /\ [][NextInputs]_vars

\* --- the classifier: streams of many kinds, with and without a rule
WithProp(key, value) == [NoProps EXCEPT ![key] = value]

ClassifyKinds ==
    {PVivaldi, PEvent,
     WithProp("media.role", <<"notification">>),
     WithProp("media.role", <<"music">>),
     WithProp("application.name", <<"plasmashell">>),
     WithProp("application.name", <<"kded5">>),
     WithProp("application.process.binary", <<"canberra-gtk-play">>),
     WithProp("application.process.binary", <<"kded5">>),
     WithProp("application.process.binary", <<"kded6">>),
     WithProp("application.process.binary", <<"mako">>),
     [NoProps EXCEPT !["pipewire.access.portal.app_id"] =
                         <<"org.freedesktop.impl.portal", ".desktop.gnome">>,
                     !["media.name"] = <<"xdg ", "portal", " chime">>],
     WithProp("pipewire.access.portal.app_id",
              <<"org.freedesktop.impl.portal", ".desktop.gnome">>),
     WithProp("media.name", <<"portal">>),
     WithProp("media.name", <<"calendar ", "Event">>),
     WithProp("media.name", <<"playback">>)}

NextClassify ==
    \/ \E lag \in {FALSE} : ApplyOnce(lag)
    \/ \E props \in ClassifyKinds : NewStream(props)
    \/ \E id \in StreamIds : StreamEnd(id)
    \/ \E id \in StreamIds : FastRoute(id)
    \/ \E r \in {VivaldiToA} : AddRule(r)
    \/ \E i \in 1..MaxRules : RemoveRule(i)

SpecClassify == InitStreams /\ [][NextClassify]_vars

\* one daemon and its watcher, with streams that come and go
NextWatch ==
    \/ \E p \in Procs :
            /\ \A q \in Procs \ {p} : procs[q].pc = "idle"
            /\ Start(p)
    \/ \E p \in Procs : LockOpen(p) \/ LockWrite(p)
    \/ \E p \in Procs : WaitForPipewire(p, FALSE)
    \/ \E p \in Procs : InitialApply(p)
    \/ \E p \in Procs : StartWatcher(p)
    \/ \E p \in Procs, ok \in BOOLEAN : WatcherFirstScan(p, ok)
    \/ \E p \in Procs, ok \in BOOLEAN : WatcherScan(p, ok)
    \/ \E r \in RuleChoices : AddRule(r)
    \/ \E i \in 1..MaxRules : RemoveRule(i)
    \/ \E props \in StreamKinds : NewStream(props)
    \/ \E id \in StreamIds : StreamGone(id)

SpecWatch == InitStreams /\ [][NextWatch]_vars

\* --- capture streams: the same two buses, microphone rules are written,
\* capture streams come and go
NextMic ==
    \/ \E lag \in BOOLEAN : ApplyOnce(lag)
    \/ MonitorAppears
    \/ \E r \in MicRouteChoices : AddMicRoute(r)
    \/ \E i \in 1..MaxRules : RemoveMicRoute(i)
    \/ \E p \in CaptureKinds : NewCapture(p)
    \/ \E id \in StreamIds : CaptureEnd(id)
    \/ \E id \in StreamIds : FastRouteMic(id)

SpecMic == InitStreams /\ [][NextMic]_vars

\* ------------------------------------------------------------------ properties

\* the commands that change the server
MutatingCommands ==
    {"load-module", "load-null-sink", "load-loopback", "unload-module",
     "move-sink-input", "move-source-output", "set-sink-mute", "set-source-mute",
     "set-sink-input-mute", "set-sink-properties", "set-source-properties"}

Loopbacks(ms) == {m \in ms : m.name = LoopbackName}

\* a rule whose target exists and whose match is satisfied by the properties
RuleHits(x, r, props) ==
    /\ r.target_bus # EmptyStr
    /\ SinkExists(x, r.target_bus)
    /\ RuleOk(r.match, props)

FirstHit(x, rules, props) ==
    CHOOSE i \in DOMAIN rules :
        /\ RuleHits(x, rules[i], props)
        /\ \A j \in 1..(i - 1) : ~RuleHits(x, rules[j], props)

\* C1: a reconciliation run right after a reconciliation, with nothing changed
\* in between, issues no command that changes the server.
C1_SecondRunIssuesNothing ==
    op = "apply" =>
        \A lag \in BOOLEAN :
            LET log == ApplyOnceRun(Ctx, cfg, lag).log
            IN \A i \in DOMAIN log : log[i].c \notin MutatingCommands

\* the target a bus's route_to resolves to
ResolvedTarget(x, b) ==
    IF b.route_to = RouteDefault THEN GetPhysicalDefaultSink(x) ELSE b.route_to

ValidTarget(b, t) ==
    /\ Lower(b.route_to) \notin {<<"none">>, <<"no routing">>}
    /\ t # EmptyStr
    /\ t # b.name
    /\ ~EndsWith(t, MonitorSuffix)

\* C2: after a reconciliation, for every bus whose null sink and monitor exist
\* and whose route_to resolves to a valid target t, exactly one loopback has the
\* bus's monitor as source, its sink is t, and route_target[bus] = t.
C2_ExactlyOneLoopbackToTarget ==
    op = "apply" =>
        \A i \in DOMAIN cfg.buses :
            LET b == cfg.buses[i]
                t == ResolvedTarget(Ctx, b)
                mine == {m \in Loopbacks(mods) : m.source = MonitorOf(b.name)}
            IN (/\ SinkExists(Ctx, b.name)
                /\ SourceExists(Ctx, MonitorOf(b.name))
                /\ ValidTarget(b, t))
               => /\ Cardinality(mine) = 1
                  /\ \A m \in mine : m.sink = t
                  /\ MapGet(st.route_target, b.name, EmptyStr) = t

C4_PhysicalDefaultNotVirtual ==
    (\E i \in DOMAIN cfg.buses : cfg.buses[i].route_to = RouteDefault) =>
        \A x \in {Ctx} \cup {BeforeStreamRules(Ctx, cfg, lag) : lag \in BOOLEAN} :
            StartsWith(GetPhysicalDefaultSink(x), VsinkPrefix) =>
                \A n \in Range(ListSinks(x)) : StartsWith(n, VsinkPrefix)

\* a reconciliation has routed a default-routed bus to a hardware sink while
\* the server's default is a virtual sink
C4_Witness ==
    /\ op = "apply"
    /\ StartsWith(def, VsinkPrefix)
    /\ \E i \in DOMAIN cfg.buses :
          /\ cfg.buses[i].route_to = RouteDefault
          /\ \E m \in Loopbacks(mods) :
                /\ m.source = MonitorOf(cfg.buses[i].name)
                /\ m.sink = GetPhysicalDefaultSink(Ctx)
                /\ ~StartsWith(m.sink, VsinkPrefix)

Entries(s) ==
    {<<"bus_modules", k, s.bus_modules[k]>> : k \in DOMAIN s.bus_modules}
    \cup {<<"route_modules", k, s.route_modules[k]>> : k \in DOMAIN s.route_modules}
    \cup {<<"input_route_modules", k, s.input_route_modules[k]>> :
             k \in DOMAIN s.input_route_modules}

\* the entries whose id is the id of no module on the server
StaleEntries(s, ms) == {e \in Entries(s) : \A m \in ms : m.id # e[3]}

\* C6: after a reconciliation, every module id in state.json is the id of a
\* module on the server, or the next reconciliation removes the entry.
C6_LedgerEntriesLiveOrPurged ==
    op = "apply" =>
        \A lag \in BOOLEAN :
            StaleEntries(st, mods) \cap Entries(ApplyOnceRun(Ctx, cfg, lag).st) = {}

\* the modules of a server, without their ids
Shapes(ms) == {[name |-> m.name, source |-> m.source, sink |-> m.sink] : m \in ms}

\* C7: from a reconciled state without the bus: adding the bus, reconciling (its
\* null sink and its route loopback then exist), removing it and reconciling
\* again leaves the modules the server had before.
C7_AddRemoveRoundTrip ==
    \A b \in BusNames :
        (op = "apply" /\ b \notin ConfiguredBuses) =>
            LET c1 == WithBus(cfg, b)
                x1 == ApplyOnceRun(Ctx, c1, FALSE)
                x2 == ApplyOnceRun([x1 EXCEPT !.log = <<>>], WithoutBus(c1, b), FALSE)
            IN (/\ SinkExists(x1, b)
                /\ \E m \in Loopbacks(x1.mods) : m.source = MonitorOf(b))
               => /\ Shapes(x2.mods) = Shapes(mods)
                  /\ Cardinality(x2.mods) = Cardinality(mods)

\* the configuration without the rules whose match mapping is empty
WithoutEmptyRules(c) ==
    [c EXCEPT !.rules = SelectSeq(@, LAMBDA r : r.match.has # {}),
              !.mic_routes = SelectSeq(@, LAMBDA r : r.match.has # {})]

\* C8: a rule with an empty match mapping changes nothing: the reconciliation
\* and both fast paths issue the same commands and leave the same server as
\* they do without the rule.
C8_EmptyMatchNeverMatches ==
    LET c0 == WithoutEmptyRules(cfg)
    IN /\ \A lag \in BOOLEAN : ApplyOnceRun(Ctx, cfg, lag) = ApplyOnceRun(Ctx, c0, lag)
       /\ \A id \in StreamIds :
             /\ RouteSinkInputNow(Ctx, cfg, id) = RouteSinkInputNow(Ctx, c0, id)
             /\ RouteSourceOutputNow(Ctx, cfg, id) = RouteSourceOutputNow(Ctx, c0, id)

\* C9: a reconciliation issues at most one move-sink-input per sink-input, and
\* when a rule matches it, the move goes to the first matching rule's target_bus.
C9_FirstMatchingRuleOnly ==
    \A lag \in BOOLEAN :
        LET x7 == BeforeStreamRules(Ctx, cfg, lag)
            log == ApplyOnceRun(Ctx, cfg, lag).log
        IN \A inp \in Range(ListSinkInputs(x7)) :
              LET moves == SelectSeq(log, LAMBDA e : e.c = "move-sink-input" /\ e.id = inp.id)
                  hit == \E i \in DOMAIN cfg.rules : RuleHits(x7, cfg.rules[i], inp.props)
              IN /\ Len(moves) <= 1
                 /\ (hit /\ Len(moves) = 1) =>
                        moves[1].snk = cfg.rules[FirstHit(x7, cfg.rules, inp.props)].target_bus

\* the command the fallback issues for a sink-input
FallbackMove(id) == Cmd("move-sink-input", id, EmptyStr, SystemBus, FALSE)

\* when the fallback may move a sink-input
FallbackAllowed(x, rules, inp) ==
    /\ \A i \in DOMAIN rules : ~RuleHits(x, rules[i], inp.props)
    /\ SinkExists(x, SystemBus)
    /\ IsSystemStream(inp.props)
    /\ inp.sink # SystemBus

\* C10: in a reconciliation and in the fast path, a command issued for a
\* sink-input after its rules were gone through is the move to vsink.system,
\* and it is issued only if no rule matched, vsink.system exists, the classifier
\* accepts the stream and the stream is not on vsink.system.
C10_FallbackOnlyAfterRules ==
    /\ \A lag \in BOOLEAN :
          LET x7 == BeforeStreamRules(Ctx, cfg, lag)
          IN \A inp \in Range(ListSinkInputs(x7)) :
                LET a == ApplyRules(x7, inp, cfg.rules, FALSE).x
                    s == StreamRules(x7, inp, cfg.rules, SinkExists(x7, SystemBus))
                IN s.log # a.log =>
                      /\ s.log = Append(a.log, FallbackMove(inp.id))
                      /\ FallbackAllowed(x7, cfg.rules, inp)
    /\ \A inp \in Range(ListSinkInputs(Ctx)) :
          LET f == FastRules(Ctx, inp, cfg.rules).x
              r == RouteSinkInputNow(Ctx, cfg, inp.id).x
          IN r.log # f.log =>
                /\ r.log = Append(f.log, FallbackMove(inp.id))
                /\ FallbackAllowed(Ctx, cfg.rules, inp)

\* the fallback has moved a stream to vsink.system: rules are configured, none
\* of them matches the stream, the classifier accepts it (no rule of RuleChoices
\* that hits an event stream of another application leads to vsink.system, so
\* only the fallback brings it there)
C10_Witness ==
    /\ op \in {"apply", "fast"}
    /\ cfg.rules # <<>>
    /\ \E s \in sin :
          /\ s.sink = SystemBus
          /\ s.props = PEvent
          /\ IsSystemStream(s.props)
          /\ \A i \in DOMAIN cfg.rules : ~RuleHits(Ctx, cfg.rules[i], s.props)

\* the process holds the lock: _try_acquire_daemon_lock returned True and it lives
Holding(p) == Live(p) /\ procs[p].got = "true"

\* C11: at most one live daemon process at a time has obtained True from
\* _try_acquire_daemon_lock.
C11_AtMostOneLockHolder ==
    Cardinality({p \in Procs : Holding(p)}) <= 1

\* process p takes a step of its own program in this transition
Stepped(p) == procs'[p].pc # procs[p].pc

\* ... and the step is its being killed inside _try_acquire_daemon_lock
Killed(p) == procs'[p].pc = "exited" /\ procs'[p].got = "none"

\* the pid process p has read from the lock file is the pid of a live process
ReadLivePid(p) == procs[p].rd \in Procs /\ Live(procs[p].rd)

\* a live pid in the file: the start fails and the file stays as it is
LivePidRefused(p) ==
    (procs[p].pc = "alive" /\ ReadLivePid(p))
        => (procs'[p].got = "false" /\ procs'[p].pc = "exited" /\ lockfile' = lockfile)

\* a dead pid (or none) in the file: the starter goes on to delete the file
DeadPidUnlinks(p) ==
    (procs[p].pc = "alive" /\ ~ReadLivePid(p)) => procs'[p].pc = "unlink"

\* the creation is tried again, once: it is the second attempt and the last
RetriedOnce(p) ==
    (procs[p].pc = "retry")
        => (procs'[p].tries = 2 /\ procs'[p].pc \in {"write", "exited"})

\* a daemon that starts while no other daemon lives, and finishes its
\* acquisition before another one starts, is not refused
AloneAcquires ==
    \A p \in Procs :
        (procs[p].alone /\ procs[p].pc \notin AcquirePcs) => procs[p].got # "false"

C13_MutationErrorsCaught ==
    \A f \in Faults : ~ApplyOnceRun(CtxWith(f), cfg, FALSE).raised

\* the places of a log where a handover begins: the bus sink is muted
HandoverStarts(log) == {i \in DOMAIN log : log[i].c = "set-sink-mute" /\ log[i].on}

\* the sink-inputs muted from place n on, in order
RECURSIVE MutedFrom(_, _)
MutedFrom(log, n) ==
    IF n <= Len(log) /\ log[n].c = "set-sink-input-mute" /\ log[n].on
    THEN <<log[n].id>> \o MutedFrom(log, n + 1)
    ELSE <<>>

\* where the handover begun at i unmutes the bus sink again (0: nowhere)
HandoverEnd(log, i) ==
    LET ends == {j \in DOMAIN log :
                    j > i /\ log[j] = Cmd("set-sink-mute", 0, EmptyStr, log[i].snk, FALSE)}
    IN IF ends = {} THEN 0 ELSE CHOOSE j \in ends : \A k \in ends : j <= k

\* the sink-inputs of the loopback loaded between i and j
NewOwnerInputs(log, i, j) ==
    LET loads == {n \in i..j : log[n].c = "load-loopback" /\ log[n].id # 0}
    IN IF loads = {} THEN <<>> ELSE <<LoopInputId(log[CHOOSE n \in loads : TRUE].id)>>

Unmutes(ids) ==
    [k \in 1..Len(ids) |-> Cmd("set-sink-input-mute", ids[k], EmptyStr, EmptyStr, FALSE)]

\* what the handover begun at i has to end with
UnmuteTail(log, i, j) ==
    Unmutes(MutedFrom(log, i + 2)) \o Unmutes(NewOwnerInputs(log, i, j))
        \o <<Cmd("set-source-mute", 0, MonitorOf(log[i].snk), EmptyStr, FALSE),
             Cmd("set-sink-mute", 0, EmptyStr, log[i].snk, FALSE)>>

\* the handover begun at i is ended by the unmute commands, in order; a run that
\* was aborted in it has issued them as its last commands
HandoverUnmuted(r, i) ==
    LET j == HandoverEnd(r.log, i)
        tail == UnmuteTail(r.log, i, j)
    IN /\ j # 0
       /\ j - Len(tail) >= i + 1 + Len(MutedFrom(r.log, i + 2))
       /\ SubSeq(r.log, j - Len(tail) + 1, j) = tail
       /\ \A n \in (i + 1)..j : ~(r.log[n].c = "set-sink-mute" /\ r.log[n].on)
       /\ (r.raised /\ HandoverStarts(r.log) \cap (i + 1)..Len(r.log) = {}) => j = Len(r.log)

\* C14: every handover that has muted the bus sink, its monitor source and the
\* previous loopback's sink-inputs issues, whether its load-module succeeds or
\* fails, the unmute commands for the previous owner's sink-inputs, the new
\* owner's sink-inputs, the monitor source and the bus sink, in that order,
\* before apply_once leaves it.
C14_HandoverAlwaysUnmutes ==
    \A f \in Faults \cup {NoFault} :
        \A i \in HandoverStarts(ApplyOnceRun(CtxWith(f), cfg, FALSE).log) :
            HandoverUnmuted(ApplyOnceRun(CtxWith(f), cfg, FALSE), i)

\* a handover away from a loaded loopback (its sink-input gets muted) in which
\* the server refuses the new loopback
C14_Witness ==
    \E f \in Faults :
        LET r == ApplyOnceRun(CtxWith(f), cfg, FALSE)
        IN /\ r.raised
           /\ \E i \in HandoverStarts(r.log) : MutedFrom(r.log, i + 2) # <<>>

\* the names of the buses of a configuration
BusNamesOf(c) == {c.buses[i].name : i \in DOMAIN c.buses}

\* the modules state.json holds for a bus
ModulesOfBus(s, name) ==
    {MapGet(s.bus_modules, name, 0), MapGet(s.route_modules, name, 0)} \ {0}

\* C15: a load_config next to a save_config returns the configuration before
\* the save or the one after it; a reconciliation that overlaps the save neither
\* misses a bus that is configured before and after nor unloads its modules.
C15_LoadSeesBeforeOrAfter ==
    /\ LoadConfig \in {cfg, save.new}
    /\ \A name \in BusNamesOf(cfg) \cap BusNamesOf(save.new) :
          /\ name \in BusNamesOf(LoadConfig)
          /\ \A lag \in BOOLEAN :
                \A i \in DOMAIN ApplyOnceRun(Ctx, LoadConfig, lag).log :
                    LET e == ApplyOnceRun(Ctx, LoadConfig, lag).log[i]
                    IN ~(e.c = "unload-module" /\ e.id \in ModulesOfBus(st, name))

\* the triggers that are inside apply_once
Running == {t \in Triggers : runs[t].on}

\* C16: at most one execution of apply_once is in progress at any time, across
\* the daemon, the window's route changes and its add/delete of a bus.
C16_SingleFlight == Cardinality(Running) <= 1

\* a fast path issued a move of stream `sid` and the server carried it out
MovedOk(x, r, sid) ==
    \E i \in DOMAIN r.x.log :
        \/ /\ r.x.log[i].c = "move-sink-input"
           /\ r.x.log[i].id = sid
           /\ MoveSucceeds(x, sid, r.x.log[i].snk)
        \/ /\ r.x.log[i].c = "move-source-output"
           /\ r.x.log[i].id = sid
           /\ MoveSourceOutputSucceeds(x, sid, r.x.log[i].src)

\* C17: route_sink_input_now and route_source_output_now return true if and
\* only if they issued a move of the stream and the move succeeded; not found,
\* no match, already on the destination and a failed move all give false.
C17_TrueIffMoved ==
    \A sid \in StreamIds :
        \A f \in {NoFault, [kind |-> "move-sink-input", nth |-> 1]} :
            /\ RouteSinkInputNow(CtxWith(f), cfg, sid).result
                   <=> MovedOk(CtxWith(f), RouteSinkInputNow(CtxWith(f), cfg, sid), sid)
            /\ RouteSourceOutputNow(CtxWith(f), cfg, sid).result
                   <=> MovedOk(CtxWith(f), RouteSourceOutputNow(CtxWith(f), cfg, sid), sid)

\* state.json as a run leaves it: save_state is the last statement of apply_once
Persisted(r) == IF r.raised THEN st ELSE r.st

\* the ids of the null sinks and loopbacks a run has loaded
LoadedIds(r) ==
    {r.log[i].id : i \in {k \in DOMAIN r.log :
                              /\ r.log[k].c \in {"load-null-sink", "load-loopback"}
                              /\ r.log[k].id # 0}}

\* C18: every null sink and loopback that apply_once loads has its module id in
\* the state.json the run leaves behind, also when the run ends because a later
\* step raised.
C18_LoadedModulesRecorded ==
    \A f \in Faults \cup {NoFault} :
        \A id \in LoadedIds(ApplyOnceRun(CtxWith(f), cfg, FALSE)) :
            \E e \in Entries(Persisted(ApplyOnceRun(CtxWith(f), cfg, FALSE))) : e[3] = id

\* a process that got past the lock and the wait for the server
Admitted(p) == procs[p].got = "true" /\ procs[p].sawup

\* C20: a daemon process reconciles, has a watcher thread or is subscribed
\* only if it acquired the lock and saw the server answer within the wait;
\* when the watcher thread is started, and until the first subscription, it
\* has completed exactly one reconciliation, and neither the watcher nor a
\* subscription exists before that reconciliation
C20_StartupOrder ==
    \A p \in Procs :
        /\ (procs[p].napply > 0 \/ procs[p].watch \/ procs[p].sub) => Admitted(p)
        /\ procs[p].pc \in {"idle", "wait", "initial"} \cup AcquirePcs
              => procs[p].napply = 0 /\ ~procs[p].watch /\ ~procs[p].sub
        /\ procs[p].pc = "watcher"
              => procs[p].napply = 1 /\ ~procs[p].watch /\ ~procs[p].sub
        /\ procs[p].pc = "import" => procs[p].napply = 1 /\ ~procs[p].sub
        /\ (procs[p].watch \/ procs[p].sub) => procs[p].napply >= 1

\* one daemon is subscribed with its watcher running after one reconciliation,
\* another one has ended without the lock or without the server
C20_Witness ==
    \E p, q \in Procs :
        /\ procs[p].sub /\ procs[p].watch /\ procs[p].napply = 1
        /\ procs[q].pc = "exited" /\ ~procs[q].stop /\ ~Admitted(q)
        /\ procs[q].napply = 0

\* C19: once a termination signal has set the stop flag of a daemon process,
\* run_daemon returns (or the process has ended), whether or not the server
\* has another event for it
C19_StopReturns ==
    \A p \in Procs :
        procs[p].stop ~> procs[p].pc \in {"returned", "cleanup", "exited"}

\* the loopbacks on the server after the first n commands of a run's log, from
\* the modules ms the run began with
RECURSIVE LoopsAfter(_, _, _)
LoopsAfter(ms, log, n) ==
    IF n = 0 THEN Loopbacks(ms)
    ELSE IF log[n].c = "load-loopback" /\ log[n].id # 0
    THEN LoopsAfter(ms, log, n - 1)
            \cup {[id |-> log[n].id, name |-> LoopbackName,
                   source |-> log[n].src, sink |-> log[n].snk]}
    ELSE IF log[n].c = "unload-module"
    THEN {m \in LoopsAfter(ms, log, n - 1) : m.id # log[n].id}
    ELSE LoopsAfter(ms, log, n - 1)

\* the loopbacks out of a bus's monitor at that moment
FromMonitor(ms, log, n, bus) ==
    {m \in LoopsAfter(ms, log, n) : m.source = MonitorOf(bus)}

\* where the handover begun at i asks for its loopback (0: nowhere)
HandoverLoad(log, i) ==
    LET loads == {k \in DOMAIN log :
                    /\ k > i
                    /\ log[k].c = "load-loopback"
                    /\ log[k].src = MonitorOf(log[i].snk)}
    IN IF loads = {} THEN 0 ELSE CHOOSE k \in loads : \A n \in loads : k <= n

\* the handover begun at i has a virtual sink for its new or its previous target
VirtualHandover(log, i) ==
    \/ StartsWith(log[HandoverLoad(log, i)].snk, VsinkPrefix)
    \/ StartsWith(MapGet(st.route_target, log[i].snk, EmptyStr), VsinkPrefix)

C22_MakeBeforeBreak ==
    \A lag \in BOOLEAN :
        LET log == ApplyOnceRun(Ctx, cfg, lag).log
        IN \A i \in HandoverStarts(log) :
              (HandoverLoad(log, i) # 0 /\ ~VirtualHandover(log, i)) =>
                  /\ \A n \in i..(HandoverLoad(log, i) - 1) :
                        FromMonitor(mods, log, n, log[i].snk)
                            = FromMonitor(mods, log, i, log[i].snk)
                  /\ FromMonitor(mods, log, i, log[i].snk) # {} =>
                        \A n \in i..HandoverEnd(log, i) :
                            FromMonitor(mods, log, n, log[i].snk) # {}

\* a handover between two hardware sinks is about to happen: the previous
\* loopback is loaded, and the handover unloads it after the load of the new one
C22_Witness ==
    LET log == ApplyOnceRun(Ctx, cfg, FALSE).log
    IN \E i \in HandoverStarts(log) :
          /\ HandoverLoad(log, i) # 0
          /\ ~VirtualHandover(log, i)
          /\ FromMonitor(mods, log, i, log[i].snk) # {}
          /\ \E n \in HandoverLoad(log, i)..HandoverEnd(log, i) :
                /\ log[n].c = "unload-module"
                /\ log[n].id \in {m.id : m \in FromMonitor(mods, log, i, log[i].snk)}

MuteCommands == {"set-sink-mute", "set-source-mute", "set-sink-input-mute"}

\* the sink-inputs the module recorded as the bus's loopback owns at place s
OwnedByPrevious(log, s, bus) ==
    IF MapGet(st.route_modules, bus, 0) \in {m.id : m \in LoopsAfter(mods, log, s - 1)}
    THEN <<LoopInputId(MapGet(st.route_modules, bus, 0))>>
    ELSE <<>>

\* the handover of `bus` that begins at s and ends at e: the three kinds of mute
\* come first, every load and unload after them, every unmute after the last
\* load or unload
MutedThroughout(log, s, e, bus) ==
    /\ e # 0
    /\ log[s + 1] = Cmd("set-source-mute", 0, MonitorOf(bus), EmptyStr, TRUE)
    /\ MutedFrom(log, s + 2) = OwnedByPrevious(log, s, bus)
    /\ \A n \in s..e :
          log[n].c \in {"load-loopback", "unload-module"} =>
              /\ n > s + 1 + Len(OwnedByPrevious(log, s, bus))
              /\ \A u \in s..n : ~(log[u].c \in MuteCommands /\ ~log[u].on)

\* the load of a bus's route loopback at k lies in a handover that is muted
MutedAround(log, k, bus) ==
    LET starts == {s \in 1..(k - 1) : log[s] = Cmd("set-sink-mute", 0, EmptyStr, bus, TRUE)}
        last == CHOOSE s \in starts : \A t \in starts : t <= s
    IN /\ starts # {}
       /\ k <= HandoverEnd(log, last)
       /\ MutedThroughout(log, last, HandoverEnd(log, last), bus)

\* C23: every load of a route loopback lies in a handover in which the mute of
\* the bus sink, of its monitor source and of the sink-inputs of the previous
\* loopback module precede the first load-module or unload-module, and in which
\* nothing is unmuted before the last load-module or unload-module.
C23_MutedWhileChanging ==
    \A lag \in BOOLEAN :
        LET log == ApplyOnceRun(Ctx, cfg, lag).log
        IN \A k \in DOMAIN log :
              \A bus \in BusNamesOf(cfg) :
                  (log[k].c = "load-loopback" /\ log[k].src = MonitorOf(bus))
                      => MutedAround(log, k, bus)

\* a handover is about to happen in which a sink-input of the previous loopback
\* is muted and that loopback is unloaded
C23_Witness ==
    LET log == ApplyOnceRun(Ctx, cfg, FALSE).log
    IN \E k \in DOMAIN log, bus \in BusNamesOf(cfg) :
          /\ log[k].c = "load-loopback" /\ log[k].src = MonitorOf(bus)
          /\ \E s \in 1..(k - 1) :
                /\ log[s] = Cmd("set-sink-mute", 0, EmptyStr, bus, TRUE)
                /\ OwnedByPrevious(log, s, bus) # <<>>
                /\ \E n \in s..HandoverEnd(log, s) : log[n].c = "unload-module"

\* an event has been handled by p's event loop in this step
Handled(p) == procs'[p].tick # procs[p].tick

\* C24: within one subscription session, an event that is not a new sink-input
\* and arrives less than EVENT_DEBOUNCE_SEC after the last accepted event of
\* that kind triggers nothing (no call, no change on the server, the timers as
\* they were), and a reconciliation such an event triggers starts at least
\* MAINTENANCE_APPLY_SEC after the previous one such an event triggered.
C24_DebounceAndMaintenance ==
    [][\A p \in Procs :
          (Handled(p) /\ procs'[p].out # "routed") =>
              /\ (procs[p].acc >= 0 /\ procs'[p].clock - procs[p].acc < EVENT_DEBOUNCE_SEC)
                    => /\ procs'[p].did = <<>>
                       /\ svars' = svars
                       /\ procs'[p].napply = procs[p].napply
                       /\ procs'[p].last = procs[p].last
                       /\ procs'[p].lastm = procs[p].lastm
              /\ (procs'[p].did # <<>> /\ procs[p].rec >= 0)
                    => procs'[p].clock - procs[p].rec >= MAINTENANCE_APPLY_SEC]_vars

\* an event was dropped right after an accepted one, in a session in which two
\* reconciliations had been triggered by such events
C24_Witness ==
    \E p \in Procs :
        /\ procs[p].out = "debounced"
        /\ procs[p].acc >= 0
        /\ procs[p].clock - procs[p].acc < EVENT_DEBOUNCE_SEC
        /\ procs[p].prec >= 0
        /\ procs[p].rec - procs[p].prec >= MAINTENANCE_APPLY_SEC

\* C25: every new-sink-input event the event loop handles calls the fast path
\* with the index of that event and then apply_once, however short the time
\* since the last event or reconciliation, and both timers keep their values.
C25_NewInputAlwaysRouted ==
    [][\A p \in Procs :
          (Handled(p) /\ procs'[p].out = "routed") =>
              /\ procs'[p].did = <<Call("route_sink_input_now", procs'[p].evid),
                                   Call("apply_once", 0)>>
              /\ procs'[p].napply = Bump(procs[p].napply)
              /\ op' = "apply"
              /\ procs'[p].last = procs[p].last
              /\ procs'[p].lastm = procs[p].lastm]_vars

\* a new sink-input was routed and reconciled at the very time of an accepted
\* event and of a reconciliation
C25_Witness ==
    \E p \in Procs :
        /\ procs[p].out = "routed"
        /\ Len(procs[p].did) = 2
        /\ procs[p].rec >= 0
        /\ procs[p].clock = procs[p].rec
        /\ procs[p].clock = procs[p].acc

TopPcs == {"fb_top", "pl_top"}
SessionPcs == {"fb_check", "fb_read", "pl_check", "pl_listen"}

\* C27: when the subscription ends or the backend raises, the event loop goes
\* back to the top of its reconnect loop; from there it returns only when the
\* stop flag is set and otherwise subscribes again, so no failure of the
\* backend ends the daemon.
C27_ReconnectUntilStop ==
    [][\A p \in Procs :
          /\ (procs[p].pc \in TopPcs \cup SessionPcs /\ procs'[p].pc \notin TopPcs \cup SessionPcs)
                => procs[p].stop /\ procs[p].pc \in TopPcs /\ procs'[p].pc = "returned"
          /\ (procs[p].pc \in SessionPcs /\ procs[p].inbox = "eof" /\ procs'[p].inbox # "eof")
                => procs'[p].pc \in TopPcs /\ ~procs'[p].sub
          /\ (procs[p].pc \in TopPcs /\ ~procs[p].stop /\ procs'[p].pc # procs[p].pc)
                => procs'[p].pc \in SessionPcs /\ procs'[p].sub]_vars

\* a session that had handled an event has ended with the stop flag not set,
\* and the loop is at its test again
C27_Witness ==
    \E p \in Procs :
        /\ procs[p].pc \in TopPcs
        /\ ~procs[p].stop
        /\ ~procs[p].sub
        /\ procs[p].napply > 1

\* the commands that move a stream
MoveCommands == {"move-sink-input", "move-source-output"}

\* the buses state.json holds that the configuration no longer has
RemovedBuses == (DOMAIN st.route_modules \cup DOMAIN st.bus_modules) \ ConfiguredBuses

\* C28: in the commands of one apply_once, the loopback of a removed bus is
\* unloaded before its null sink, the modules of removed buses are unloaded
\* before a null sink is loaded, every null sink is loaded before any loopback,
\* every loopback before the policy module, and every load and unload of a
\* module before any move of a stream; sink-inputs are moved before
\* source-outputs.
C28_PhaseOrder ==
    \A lag \in BOOLEAN :
        LET log == ApplyOnceRun(Ctx, cfg, lag).log
            Before(A(_), B(_)) ==
                \A i, j \in DOMAIN log : (A(log[i]) /\ B(log[j])) => i < j
            GhostUnload(e) ==
                /\ e.c = "unload-module"
                /\ \E b \in RemovedBuses :
                      e.id \in {MapGet(st.route_modules, b, 0), MapGet(st.bus_modules, b, 0)}
            NullSinkLoad(e) == e.c = "load-null-sink"
            LoopbackLoad(e) == e.c = "load-loopback"
            PolicyLoad(e) == e.c = "load-module"
            ModuleChange(e) ==
                e.c \in {"unload-module", "load-null-sink", "load-loopback", "load-module"}
            Move(e) == e.c \in MoveCommands
            SinkInputMove(e) == e.c = "move-sink-input"
            SourceOutputMove(e) == e.c = "move-source-output"
        IN /\ \A b \in RemovedBuses :
                 \A i, j \in DOMAIN log :
                     (/\ log[i].c = "unload-module"
                      /\ log[j].c = "unload-module"
                      /\ b \in DOMAIN st.route_modules
                      /\ b \in DOMAIN st.bus_modules
                      /\ log[i].id = st.route_modules[b]
                      /\ log[j].id = st.bus_modules[b]) => i < j
           /\ Before(GhostUnload, NullSinkLoad)
           /\ Before(NullSinkLoad, LoopbackLoad)
           /\ Before(LoopbackLoad, PolicyLoad)
           /\ Before(ModuleChange, Move)
           /\ Before(SinkInputMove, SourceOutputMove)

\* the next run unloads the modules of a removed bus, loads a null sink and a
\* loopback and moves a stream
C28_Witness ==
    LET log == ApplyOnceRun(Ctx, cfg, FALSE).log
    IN /\ \E b \in RemovedBuses, i, j \in DOMAIN log :
             /\ b \in DOMAIN st.route_modules
             /\ b \in DOMAIN st.bus_modules
             /\ log[i].c = "unload-module" /\ log[i].id = st.route_modules[b]
             /\ log[j].c = "unload-module" /\ log[j].id = st.bus_modules[b]
       /\ \E i \in DOMAIN log : log[i].c = "load-null-sink"
       /\ \E i \in DOMAIN log : log[i].c = "load-loopback"
       /\ \E i \in DOMAIN log : log[i].c = "move-sink-input"

\* the route_to values that mean no routing (apply_once 284)
RoutedNowhere(b) == Lower(b.route_to) \in {<<"none">>, <<"no routing">>}

\* C29: when apply_once has completed, a bus whose route_to is none has no
\* loopback out of its monitor on the server, no entry in route_modules, and
\* "none" as its route_target.
C29_NoneMeansNoLoopback ==
    \A f \in Faults \cup {NoFault} :
        LET r == ApplyOnceRun(CtxWith(f), cfg, FALSE)
        IN \A i \in DOMAIN cfg.buses :
              (RoutedNowhere(cfg.buses[i]) /\ ~r.raised) =>
                  /\ \A m \in Loopbacks(r.mods) : m.source # MonitorOf(cfg.buses[i].name)
                  /\ cfg.buses[i].name \notin DOMAIN r.st.route_modules
                  /\ MapGet(r.st.route_target, cfg.buses[i].name, EmptyStr) = <<"none">>

\* the route_to of a bus names a sink (neither default nor no routing)
NamesTarget(b) == b.route_to # RouteDefault /\ ~RoutedNowhere(b)

\* C30: a bus whose route_to names a sink that the server does not have gets
\* no handover in apply_once: no mute of the bus, no load-loopback out of its
\* monitor, and the loopbacks out of its monitor stay as they are.
C30_NoHandoverToAbsentSink ==
    \A lag \in BOOLEAN :
        LET r == ApplyOnceRun(Ctx, cfg, lag)
        IN \A i \in DOMAIN cfg.buses :
              (NamesTarget(cfg.buses[i]) /\ ~SinkExists(r, cfg.buses[i].route_to)) =>
                  /\ \A k \in DOMAIN r.log :
                        /\ ~(r.log[k].c = "load-loopback"
                                /\ r.log[k].src = MonitorOf(cfg.buses[i].name))
                        /\ ~(r.log[k].c = "set-sink-mute"
                                /\ r.log[k].snk = cfg.buses[i].name)
                  /\ FromMonitor(r.mods, <<>>, 0, cfg.buses[i].name)
                        = FromMonitor(mods, <<>>, 0, cfg.buses[i].name)

\* an input route that apply_once 356-367 does not skip, on the server of x
InputRouteApplies(x, r) ==
    /\ r.source # EmptyStr
    /\ r.target_bus # EmptyStr
    /\ SourceExists(x, r.source)
    /\ ~EndsWith(r.source, MonitorSuffix)
    /\ SinkExists(x, r.target_bus)

\* C31: when apply_once has completed, every configured input route whose
\* source is there and is no monitor and whose target sink is there has a
\* loopback from that source to that sink and none from that source to another
\* sink; for an input route whose source is a monitor or missing or whose
\* target sink is missing no loopback is asked for.
C31_InputRoutesInstalled ==
    \A lag \in BOOLEAN :
        LET r == ApplyOnceRun(Ctx, cfg, lag)
        IN ~r.raised =>
              \A i \in DOMAIN cfg.input_routes :
                  IF InputRouteApplies(r, cfg.input_routes[i])
                  THEN /\ \E m \in Loopbacks(r.mods) :
                            /\ m.source = cfg.input_routes[i].source
                            /\ m.sink = cfg.input_routes[i].target_bus
                       /\ \A m \in Loopbacks(r.mods) :
                            m.source = cfg.input_routes[i].source
                                => m.sink = cfg.input_routes[i].target_bus
                  ELSE \A k \in DOMAIN r.log :
                            ~(/\ r.log[k].c = "load-loopback"
                              /\ r.log[k].src = cfg.input_routes[i].source
                              /\ r.log[k].snk = cfg.input_routes[i].target_bus)

\* the names of the desktop's notifiers, as the classification lists them
NotifierNames ==
    {<<"gnome-shell">>, <<"plasmashell">>, <<"kded5">>, <<"kded6">>,
     <<"xfce4-notifyd">>, <<"notification-daemon">>, <<"mako">>}

\* C32: a stream is classified as a system stream exactly when its media.role
\* is event or notification, or its lowercased application.name is one of the
\* notifier names, or its lowercased application.process.binary is one of
\* them or canberra-gtk-play, or its portal app_id starts with
\* org.freedesktop.impl.portal and its media.name contains portal, or its
\* lowercased media.name contains one of the system-sound tokens.
C32_ClassifierExact ==
    \A s \in sin :
        IsSystemStream(s.props) <=>
            \/ Lower(s.props["media.role"]) \in {<<"event">>, <<"notification">>}
            \/ Lower(s.props["application.name"]) \in NotifierNames
            \/ Lower(s.props["application.process.binary"])
                    \in NotifierNames \cup {<<"canberra-gtk-play">>}
            \/ /\ StartsWith(Lower(s.props["pipewire.access.portal.app_id"]),
                              <<"org.freedesktop.impl.portal">>)
               /\ Contains(Lower(s.props["media.name"]), <<"portal">>)
            \/ \E t \in MediaNameTokens : Contains(Lower(s.props["media.name"]), <<t>>)

\* the sources the configured input routes name (apply_once 238)
WantedInputSources ==
    {cfg.input_routes[i].source : i \in DOMAIN cfg.input_routes} \ {EmptyStr}

\* the commands of a run hold an unload-module of every module that `before`
\* records under a key that `after` no longer has
UnloadSent(log, before, after) ==
    \A k \in DOMAIN before \ DOMAIN after :
        \E n \in DOMAIN log : log[n].c = "unload-module" /\ log[n].id = before[k]

\* C33: when apply_once has returned normally, the keys of bus_modules and of
\* route_modules are names of configured buses, the keys of
\* input_route_modules are sources of configured input routes, and for every
\* key that was removed the module recorded under it was sent an
\* unload-module.
C33_StateKeysConfigured ==
    \A lag \in BOOLEAN :
        LET r == ApplyOnceRun(Ctx, cfg, lag)
        IN ~r.raised =>
              /\ DOMAIN r.st.bus_modules \subseteq ConfiguredBuses
              /\ DOMAIN r.st.route_modules \subseteq ConfiguredBuses
              /\ DOMAIN r.st.input_route_modules \subseteq WantedInputSources
              /\ UnloadSent(r.log, st.bus_modules, r.st.bus_modules)
              /\ UnloadSent(r.log, st.route_modules, r.st.route_modules)
              /\ UnloadSent(r.log, st.input_route_modules, r.st.input_route_modules)

\* state.json holds the null sink and the loopback of a bus and the loopback
\* of an input route that the configuration no longer has, and the next run
\* removes the three keys
C33_Witness ==
    LET r == ApplyOnceRun(Ctx, cfg, FALSE)
    IN /\ ~r.raised
       /\ DOMAIN st.bus_modules \ ConfiguredBuses # {}
       /\ DOMAIN st.route_modules \ ConfiguredBuses # {}
       /\ DOMAIN st.input_route_modules \ WantedInputSources # {}
       /\ DOMAIN r.st.bus_modules \cup DOMAIN r.st.route_modules
            \cup DOMAIN r.st.input_route_modules = {}

\* C34: a daemon that ends removes the lock file only while the file holds its
\* own pid: no step in which a process leaves _cleanup_lock takes away a file
\* whose text is the pid of another process or the still empty file of one
C34_RemovesOnlyOwnLock ==
    [][\A p \in Procs :
        (procs[p].pc \in {"returned", "cleanup"} /\ procs'[p].pc = "exited"
            /\ lockfile # NoFile /\ lockfile' = NoFile)
            => lockfile.txt = p]_vars

\* the sources apply_once asks loopbacks for: the monitors of the configured
\* buses (core.py 300) and the sources of the input routes (core.py 358)
AskedSources ==
    {MonitorOf(b.name) : b \in Range(cfg.buses)}
        \cup {cfg.input_routes[i].source : i \in DOMAIN cfg.input_routes}

\* C35: on every server state, for every source S the reconciliation asks for
\* and every sink W there is, cleanup_wrong_loopbacks_for_source(S, W) unloads
\* only loopbacks whose source is exactly S and whose sink is not exactly W,
\* and loopback_exists(S, W) is true only if a loopback with exactly that
\* source and exactly that sink is loaded (mic is not mic2, hw1 is not hw10)
C35_ExactNames ==
    \A S \in AskedSources, W \in Range(ListSinks(Ctx)) :
        /\ \A m \in mods \ CleanupWrongLoopbacksForSource(Ctx, S, W).mods :
                m.name = LoopbackName /\ m.source = S /\ m.sink # W
        /\ LoopbackExists(Ctx, S, W)
                => \E m \in Loopbacks(mods) : m.source = S /\ m.sink = W

\* the sink a sink-input is on, on the server of x
SinkOfInput(x, id) == (CHOOSE i \in x.sin : i.id = id).sink

\* C36: whenever route_sink_input_now has placed a sink-input (it returned
\* True), the stream is on that same sink after the apply_once that follows:
\* the reconciliation never moves it away from the sink the fast path chose
C36_FastPathAgreesWithReconciliation ==
    \A inp \in sin, lag \in BOOLEAN :
        LET f == RouteSinkInputNow(Ctx, cfg, inp.id)
            r == ApplyOnceRun(f.x, cfg, lag)
        IN (f.result /\ ~r.raised) =>
              SinkOfInput(r, inp.id) = SinkOfInput(f.x, inp.id)

\* a loopback carries the monitor of bus a to the sink of bus b
Feeds(a, b) == \E m \in Loopbacks(mods) : m.source = MonitorOf(a) /\ m.sink = b

\* bus b is fed from bus a over at most n loopbacks in a row
RECURSIVE FedWithin(_, _, _)
FedWithin(a, b, n) ==
    IF n = 0 THEN FALSE
    ELSE \/ Feeds(a, b)
         \/ \E c \in ConfiguredBuses : Feeds(a, c) /\ FedWithin(c, b, n - 1)

\* C37: the loopbacks between the configured buses never form a cycle: no bus
\* is fed, over one loopback or a chain of them, from its own monitor
C37_NoLoopbackCycle ==
    \A a \in ConfiguredBuses : ~FedWithin(a, a, Cardinality(ConfiguredBuses))

\* the module that has the id, if there is one, is the null sink of the bus
ItsNullSink(ms, id, bus) ==
    \A m \in ms : m.id = id => (m.name = NullSinkName /\ m.sink = bus)

\* the module that has the id, if there is one, is a loopback from the source
ItsLoopback(ms, id, source) ==
    \A m \in ms : m.id = id => (m.name = LoopbackName /\ m.source = source)

\* apply_once 237-274: the run when the routing of the buses begins
BeforeRouting(x, c, lag) ==
    LET current_bus_names == {c.buses[i].name : i \in DOMAIN c.buses}
        wanted_input_sources ==
            {c.input_routes[i].source : i \in DOMAIN c.input_routes} \ {EmptyStr}
        x1 == CleanupInputState(x, SetToSeq(DOMAIN x.st.input_route_modules),
                                wanted_input_sources)
        x2 == CleanupRouteState(x1, SetToSeq(DOMAIN x1.st.route_modules), current_bus_names)
        x3 == CleanupBusState(x2, SetToSeq(DOMAIN x2.st.bus_modules), current_bus_names)
    IN EnsureNullSinks(x3, c.buses, lag)

\* C38: an unload-module that apply_once issues with an id from state.json hits
\* nothing or the module that was created for that bus or source: the ids of
\* the entries that ghost removal drops (240-259) denote, on the server the run
\* finds, the loopback of that source, the loopback of that bus's monitor and
\* the null sink of that bus, and the id that route_to = none unloads (284-290)
\* denotes the loopback of that bus's monitor
C38_UnloadsOnlyOwnModules ==
    /\ \A k \in DOMAIN st.input_route_modules \ WantedInputSources :
            ItsLoopback(mods, st.input_route_modules[k], k)
    /\ \A k \in DOMAIN st.route_modules \ ConfiguredBuses :
            ItsLoopback(mods, st.route_modules[k], MonitorOf(k))
    /\ \A k \in DOMAIN st.bus_modules \ ConfiguredBuses :
            ItsNullSink(mods, st.bus_modules[k], k)
    /\ \A lag \in BOOLEAN, i \in DOMAIN cfg.buses :
            LET x == RouteBuses(BeforeRouting(Ctx, cfg, lag), SubSeq(cfg.buses, 1, i - 1))
            IN (~x.raised /\ RoutedNowhere(cfg.buses[i]))
                  => ItsLoopback(x.mods, MapGet(x.st.route_modules, cfg.buses[i].name, 0),
                                 MonitorOf(cfg.buses[i].name))

\* C39: an "other" event that the event loop has received and that the debounce
\* or the maintenance window kept from reconciling is followed, sooner or
\* later, by an event of the loop that runs apply_once, also when the server
\* has no further event
C39_SuppressedEventReconciled ==
    \A p \in Procs :
        (procs[p].out \in {"debounced", "held"})
            ~> (procs[p].out \in {"reconciled", "routed"})

\* the mute switch of a sink after the first n commands of a log, `was` being
\* its position before them (pactl set-sink-mute NAME 1|0)
RECURSIVE SinkMuteAfter(_, _, _, _)
SinkMuteAfter(was, log, n, name) ==
    IF n = 0 THEN was
    ELSE IF log[n].c = "set-sink-mute" /\ log[n].snk = name THEN log[n].on
    ELSE SinkMuteAfter(was, log, n - 1, name)

\* the mute switch of a source (pactl set-source-mute NAME 1|0)
RECURSIVE SourceMuteAfter(_, _, _, _)
SourceMuteAfter(was, log, n, name) ==
    IF n = 0 THEN was
    ELSE IF log[n].c = "set-source-mute" /\ log[n].src = name THEN log[n].on
    ELSE SourceMuteAfter(was, log, n - 1, name)

\* C40: whatever the mute switches of an existing bus sink and of its monitor
\* were before a reconciliation (the user may have muted either), they are the
\* same after it, also when the run hands the bus over to another target
C40_MuteStateKept ==
    \A lag, was \in BOOLEAN, b \in ConfiguredBuses :
        LET log == ApplyOnceRun(Ctx, cfg, lag).log
        IN (SinkExists(Ctx, b) /\ SourceExists(Ctx, MonitorOf(b))) =>
              /\ SinkMuteAfter(was, log, Len(log), b) = was
              /\ SourceMuteAfter(was, log, Len(log), MonitorOf(b)) = was
====
